---- MODULE Spec2Model ----
(***************************************************************************)
(* A model of the seiken-fx Result runtime (src/src/result.ts and          *)
(* src/src/array.ts): the two-variant Result class pair, its combinators,  *)
(* the conditional chain, the try/catch chain, the pattern-matching engine *)
(* and the fail-fast array operators.                                      *)
(*                                                                         *)
(* JavaScript values are records tagged by their typeof class.  Heap       *)
(* objects (Results, chains, arrays, plain objects) carry a `ref`, their   *)
(* identity: `===` on them compares refs.  Every library method is an      *)
(* operator that takes the allocation counter h and returns an outcome     *)
(*   [kind, val, calls, h]                                                 *)
(* where kind is "return" or "throw", calls is the spy log of the          *)
(* caller-supplied callbacks it invoked (in invocation order) and h the    *)
(* allocation counter after the call.                                      *)
(*                                                                         *)
(* The state machine is a caller driving the library: pc is the caller's   *)
(* position in a fluent chain ("idle": holds nothing, "result": holds the  *)
(* Result cur, "cond"/"try": holds the chain object chain, "exited": left  *)
(* Result-space through an eliminator or an exception).  last is the most  *)
(* recent call with its receiver, arguments, outcome and spy log, with the *)
(* refs as they were during the call.  Objects the caller no longer holds  *)
(* are garbage: after each call the held objects are renumbered (Canon),   *)
(* which keeps identities distinct and the heap finite.                    *)
(***************************************************************************)
(* hist and spy are the calls made on, and the callbacks invoked by, the   *)
(* chain object in hand since the call that created it (for a plain Result *)
(* call: that call alone).  runFrom/runLen/runCalls record the Failure a   *)
(* run of consecutive map/flatMap calls started from, the length of the    *)
(* run and the callbacks invoked during it.                                *)
(*                                                                         *)
(* The Promise bridge runs on a model of the host's promises: proms is the *)
(* table of promises (state, value, registered reactions) and jobs the     *)
(* FIFO microtask queue.  A caller that made an async call is at pc        *)
(* "async"; the source promise (proms[1]) is settled by the environment    *)
(* and each microtask runs as one step.                                    *)
(*                                                                         *)
(* The object operators (src/src/object.ts) work on objects in a heap:     *)
(* heap maps a ref to a cell, the own properties of a plain object or the  *)
(* items of an array, and a value of object type is the ref alone.  Every  *)
(* operator takes the heap and returns the heap it leaves behind, so a     *)
(* store into an input object is visible.  last.before is the heap the     *)
(* call started from and heap the one it left.                             *)
(***************************************************************************)
EXTENDS Integers, Sequences, FiniteSets, TLC

VARIABLES pc, cur, chain, last, hist, spy, runFrom, runLen, runCalls, proms, jobs, heap

vars == <<pc, cur, chain, last, hist, spy, runFrom, runLen, runCalls, proms, jobs, heap>>

\* ---------------------------------------------------------------- bounds
MaxNum == 1
MaxSteps == 2
MaxLen == 3
MaxPatterns == 2
MaxFns == 2
MaxDepth == 2
MaxSources == 2

\* ------------------------------------------------------------- JS values
NullV == [t |-> "null"]
UndefV == [t |-> "undefined"]
Num(n) == [t |-> "number", n |-> n]
Bool(b) == [t |-> "boolean", b |-> b]
\* a plain object: props maps every key of Keys to its value, Absent when the
\* object has no such own property
Absent == [t |-> "absent"]
Keys == {"a", "b"}
Obj(ref, props) == [t |-> "object", ref |-> ref, props |-> props]
Arr(ref, items) == [t |-> "array", ref |-> ref, items |-> items]
ErrorV(name, message) == [t |-> "error", name |-> name, message |-> message]
Str(s) == [t |-> "string", s |-> s]

Nums == {Num(n) : n \in 0..MaxNum}
\* plain objects the caller already holds (refs below 0 are the caller's)
Objs == {Obj(-1 - n, [a |-> Num(n), b |-> Absent]) : n \in 0..MaxNum}
Prims == {NullV, UndefV} \cup Nums
Vals == Prims \cup Objs

\* JS truthiness (ToBoolean)
Truthy(v) ==
  CASE v.t = "null" -> FALSE
    [] v.t = "undefined" -> FALSE
    [] v.t = "number" -> v.n # 0
    [] v.t = "boolean" -> v.b
    [] v.t = "string" -> v.s # ""
    [] OTHER -> TRUE

\* JS strict equality ===
StrictEq(x, y) ==
  IF x.t # y.t THEN FALSE
  ELSE CASE x.t = "number" -> x.n = y.n
         [] x.t = "boolean" -> x.b = y.b
         [] x.t = "string" -> x.s = y.s
         [] x.t = "function" -> x.name = y.name
         [] x.t \in {"null", "undefined"} -> TRUE
         [] OTHER -> x.ref = y.ref

\* --------------------------------------------------------------- outcomes
Ret(val, calls, h) == [kind |-> "return", val |-> val, calls |-> calls, h |-> h]
Throw(val, calls, h) == [kind |-> "throw", val |-> val, calls |-> calls, h |-> h]
Spy(site, idx, fn, args) == [site |-> site, idx |-> idx, fn |-> fn, args |-> args]

\* ------------------------------------------------ caller-supplied callbacks
\* Plain callbacks: x => x, x => c, the successor on numbers, and a thrower.
IdFn == [k |-> "id"]
IncFn == [k |-> "inc"]
ConstFn(c) == [k |-> "const", c |-> c]
ThrowFn(c) == [k |-> "throw", c |-> c]
\* async x => ...: returns at once the promise id of the host's table
AsyncFn(id) == [k |-> "async", id |-> id]

PureFns == {IdFn, IncFn, ConstFn(NullV)}
Throwers == {ThrowFn(Num(0)), ThrowFn(UndefV)}
Fns == PureFns \cup Throwers
\* the functions handed to tryCatch: throw null and throw 'boom' as well
TryFns == Fns \cup {ThrowFn(NullV), ThrowFn(Str("boom"))}

\* what invoking a plain callback on x does: [kind, val]
Invoke(f, x) ==
  CASE f.k = "id" -> [kind |-> "return", val |-> x]
    [] f.k = "const" -> [kind |-> "return", val |-> f.c]
    [] f.k = "inc" ->
         [kind |-> "return",
          val |-> IF x.t = "number" THEN Num((x.n + 1) % (MaxNum + 1)) ELSE x]
    [] f.k = "throw" -> [kind |-> "throw", val |-> f.c]
    [] f.k = "in" -> [kind |-> "return", val |-> Bool(x \in f.s)]
    [] f.k = "async" -> [kind |-> "return", val |-> [t |-> "promise", id |-> f.id]]

\* Predicates: x => S.includes(x)
InFn(s) == [k |-> "in", s |-> s]
Preds == {InFn({}), InFn(Vals), InFn({Num(0), NullV})}

\* Result-returning callbacks: x => failOn.includes(x) ? failure(g(x)) : success(g(x))
RFn(failOn, g) == [k |-> "rfn", failOn |-> failOn, g |-> g]
\* two-argument reducers: (acc, x) => failOn.includes(x) ? failure(x) : success(pick)
\* where pick is acc ("first") or x ("last")
RFn2(failOn, pick) == [k |-> "rfn2", failOn |-> failOn, pick |-> pick]

\* typeof
TypeOf(x) ==
  IF "k" \in DOMAIN x THEN "function"
  ELSE CASE x.t \in {"null", "object", "array", "error", "promise"} -> "object"
         [] OTHER -> x.t

\* ------------------------------------------------------- the Result classes
Success(value, ref) == [ref |-> ref, tag |-> "Success", value |-> value]
Failure(error, ref) == [ref |-> ref, tag |-> "Failure", error |-> error]

success(value, h) == Success(value, h)
failure(error, h) == Failure(error, h)

Success_isSuccess(self) == TRUE
\* slip: the predicate copied from the other class
Success_isFailure_bug(self) == TRUE
Success_isFailure(self) == FALSE
Failure_isSuccess(self) == FALSE
Failure_isFailure(self) == TRUE

\* dynamic dispatch on the class of the receiver
isSuccess(r) == IF r.tag = "Success" THEN Success_isSuccess(r) ELSE Failure_isSuccess(r)
isFailure(r) == IF r.tag = "Success" THEN Success_isFailure(r) ELSE Failure_isFailure(r)

\* invoking a Result-returning callback allocates the Result it returns
InvokeR(f, x, h) ==
  LET y == Invoke(f.g, x).val
  IN  [kind |-> "return",
       val |-> IF x \in f.failOn THEN failure(y, h) ELSE success(y, h),
       h |-> h + 1]

InvokeR2(f, acc, x, h) ==
  [kind |-> "return",
   val |-> IF x \in f.failOn THEN failure(x, h)
           ELSE success(IF f.pick = "first" THEN acc ELSE x, h),
   h |-> h + 1]

Success_map(self, f, h) ==
  LET o == Invoke(f, self.value)
      log == <<Spy("f", 0, f, <<self.value>>)>>
  IN  IF o.kind = "throw" THEN Throw(o.val, log, h)
      ELSE Ret(success(o.val, h), log, h + 1)

\* slip: the callback is run once to test its outcome and again to return it
Success_flatMap_bug(self, f, h) ==
  LET t == InvokeR(f, self.value, h)
      o == InvokeR(f, self.value, t.h)
  IN  Ret(o.val, <<Spy("f", 0, f, <<self.value>>), Spy("f", 0, f, <<self.value>>)>>, o.h)
Success_flatMap(self, f, h) ==
  LET o == InvokeR(f, self.value, h)
  IN  Ret(o.val, <<Spy("f", 0, f, <<self.value>>)>>, o.h)

Success_mapError(self, f, h) == Ret(self, <<>>, h)

Success_recover(self, f, h) == Ret(self, <<>>, h)

Success_fold(self, onFailure, onSuccess, h) ==
  LET o == Invoke(onSuccess, self.value)
      log == <<Spy("onSuccess", 0, onSuccess, <<self.value>>)>>
  IN  IF o.kind = "throw" THEN Throw(o.val, log, h) ELSE Ret(o.val, log, h)

Success_getOrElse(self, defaultValue, h) == Ret(self.value, <<>>, h)

Success_getOrThrow(self, h) == Ret(self.value, <<>>, h)

\* the pair [value, null] is a fresh two-element array
Success_unwrap(self, h) == Ret(Arr(h, <<self.value, NullV>>), <<>>, h + 1)

Failure_map(self, f, h) == Ret(self, <<>>, h)

\* slip: binds the error as if it were a value
Failure_flatMap_bug(self, f, h) ==
  LET o == InvokeR(f, self.error, h)
  IN  Ret(o.val, <<Spy("f", 0, f, <<self.error>>)>>, o.h)
Failure_flatMap(self, f, h) == Ret(self, <<>>, h)

\* slip: the mapped error comes back as a value
Failure_mapError_bug(self, f, h) ==
  LET o == Invoke(f, self.error)
      log == <<Spy("f", 0, f, <<self.error>>)>>
  IN  IF o.kind = "throw" THEN Throw(o.val, log, h)
      ELSE Ret(success(o.val, h), log, h + 1)
Failure_mapError(self, f, h) ==
  LET o == Invoke(f, self.error)
      log == <<Spy("f", 0, f, <<self.error>>)>>
  IN  IF o.kind = "throw" THEN Throw(o.val, log, h)
      ELSE Ret(failure(o.val, h), log, h + 1)

Failure_recover(self, f, h) ==
  LET o == Invoke(f, self.error)
      log == <<Spy("f", 0, f, <<self.error>>)>>
  IN  IF o.kind = "throw" THEN Throw(o.val, log, h)
      ELSE Ret(success(o.val, h), log, h + 1)

Failure_fold(self, onFailure, onSuccess, h) ==
  LET o == Invoke(onFailure, self.error)
      log == <<Spy("onFailure", 0, onFailure, <<self.error>>)>>
  IN  IF o.kind = "throw" THEN Throw(o.val, log, h) ELSE Ret(o.val, log, h)

Failure_getOrElse(self, defaultValue, h) == Ret(defaultValue, <<>>, h)

Failure_getOrThrow(self, h) == Throw(self.error, <<>>, h)

\* slip: the pair is built in the Success order
Failure_unwrap_bug(self, h) == Ret(Arr(h, <<self.error, NullV>>), <<>>, h + 1)
Failure_unwrap(self, h) == Ret(Arr(h, <<NullV, self.error>>), <<>>, h + 1)

\* ------------------------------------------------------ conditional chain
ConditionalChain(result, condition, ref) ==
  [ref |-> ref, cls |-> "ConditionalChain", result |-> result, condition |-> condition]

Success_if(self, predicate, h) ==
  LET o == Invoke(predicate, self.value)
      log == <<Spy("predicate", 0, predicate, <<self.value>>)>>
  IN  IF o.kind = "throw" THEN Throw(o.val, log, h)
      ELSE Ret(ConditionalChain(self, o.val, h), log, h + 1)

Failure_if(self, predicate, h) ==
  Ret(ConditionalChain(self, Bool(FALSE), h), <<>>, h + 1)

\* slip: the condition is not consulted
ConditionalChain_then_bug(self, callback, h) ==
  IF isSuccess(self.result)
  THEN LET o == Invoke(callback, self.result.value)
           log == <<Spy("then", 0, callback, <<self.result.value>>)>>
       IN  IF o.kind = "throw" THEN Throw(o.val, log, h) ELSE Ret(self, log, h)
  ELSE Ret(self, <<>>, h)
ConditionalChain_then(self, callback, h) ==
  IF Truthy(self.condition) /\ isSuccess(self.result)
  THEN LET o == Invoke(callback, self.result.value)
           log == <<Spy("then", 0, callback, <<self.result.value>>)>>
       IN  IF o.kind = "throw" THEN Throw(o.val, log, h) ELSE Ret(self, log, h)
  ELSE Ret(self, <<>>, h)

\* slip: the Failure branch is forgotten
ConditionalChain_else_bug(self, callback, h) ==
  IF isSuccess(self.result) /\ ~Truthy(self.condition)
  THEN LET o == Invoke(callback, self.result.value)
           log == <<Spy("else", 0, callback, <<self.result.value>>)>>
       IN  IF o.kind = "throw" THEN Throw(o.val, log, h)
           ELSE Ret(self.result, log, h)
  ELSE Ret(self.result, <<>>, h)
ConditionalChain_else(self, callback, h) ==
  IF isSuccess(self.result)
  THEN IF ~Truthy(self.condition)
       THEN LET o == Invoke(callback, self.result.value)
                log == <<Spy("else", 0, callback, <<self.result.value>>)>>
            IN  IF o.kind = "throw" THEN Throw(o.val, log, h)
                ELSE Ret(self.result, log, h)
       ELSE Ret(self.result, <<>>, h)
  ELSE LET o == Invoke(callback, self.result.error)
           log == <<Spy("else", 0, callback, <<self.result.error>>)>>
       IN  IF o.kind = "throw" THEN Throw(o.val, log, h)
           ELSE Ret(self.result, log, h)

\* the Result's own .else(), reached when .else() is called without .if()
Success_else(self, f, h) == Ret(self, <<>>, h)
Failure_else(self, f, h) == Ret(self, <<>>, h)

\* --------------------------------------------------------- pattern matching
\* the constructor functions, used as tags in the pattern tuples
SuccessCtor == [k |-> "ctor", name |-> "success"]
FailureCtor == [k |-> "ctor", name |-> "failure"]

isDestructuringPattern(pattern) ==
  Len(pattern) = 3 /\ pattern[1] = SuccessCtor /\ TypeOf(pattern[2]) = "object"

isGuardPattern(pattern) ==
  Len(pattern) = 3 /\ pattern[1] = SuccessCtor /\ TypeOf(pattern[2]) = "function"

isBasicSuccessPattern(pattern) ==
  Len(pattern) = 2 /\ pattern[1] = SuccessCtor

isFailurePattern(pattern) == pattern[1] = FailureCtor

\* the own enumerable keys Object.entries() walks
OwnKeys(o) == {k \in Keys : o.props[k] # Absent}

\* value[key]: a property read; null and undefined have no properties to read
CanRead(value) == value.t \notin {"null", "undefined"}
GetProp(value, key) ==
  IF value.t = "object" /\ value.props[key] # Absent THEN value.props[key] ELSE UndefV

TypeErrorV == ErrorV("TypeError", "Cannot read properties")

\* [kind, val]: TRUE/FALSE, or the TypeError of reading a property of null/undefined
Success_matchesDestructuring(self, destructure) ==
  IF OwnKeys(destructure) # {} /\ ~CanRead(self.value)
  THEN [kind |-> "throw", val |-> TypeErrorV]
  ELSE [kind |-> "return",
        val |-> \A key \in OwnKeys(destructure) :
                   StrictEq(GetProp(self.value, key), destructure.props[key])]

RECURSIVE Success_matchLoop(_, _, _, _, _)
Success_matchLoop(self, patterns, i, calls, h) ==
  IF i > Len(patterns)
  THEN Throw(ErrorV("Error", "No matching pattern found"), calls, h)
  ELSE LET pattern == patterns[i]
           cb == pattern[Len(pattern)]
           hit == LET o == Invoke(cb, self.value)
                      log == calls \o <<Spy("handler", i, cb, <<self.value>>)>>
                  IN  IF o.kind = "throw" THEN Throw(o.val, log, h) ELSE Ret(o.val, log, h)
       IN  IF isFailurePattern(pattern)
           THEN Success_matchLoop(self, patterns, i + 1, calls, h)
           ELSE IF isDestructuringPattern(pattern)
           THEN LET m == Success_matchesDestructuring(self, pattern[2])
                IN  IF m.kind = "throw" THEN Throw(m.val, calls, h)
                    ELSE IF m.val THEN hit
                    ELSE Success_matchLoop(self, patterns, i + 1, calls, h)
           ELSE IF isGuardPattern(pattern)
           THEN LET g == Invoke(pattern[2], self.value)
                    log == calls \o <<Spy("guard", i, pattern[2], <<self.value>>)>>
                IN  IF g.kind = "throw" THEN Throw(g.val, log, h)
                    ELSE IF Truthy(g.val)
                    THEN LET o == Invoke(cb, self.value)
                             log2 == log \o <<Spy("handler", i, cb, <<self.value>>)>>
                         IN  IF o.kind = "throw" THEN Throw(o.val, log2, h)
                             ELSE Ret(o.val, log2, h)
                    ELSE Success_matchLoop(self, patterns, i + 1, log, h)
           ELSE IF isBasicSuccessPattern(pattern)
           THEN hit
           ELSE Success_matchLoop(self, patterns, i + 1, calls, h)

Success_match(self, patterns, h) == Success_matchLoop(self, patterns, 1, <<>>, h)

RECURSIVE Failure_matchLoop(_, _, _, _)
Failure_matchLoop(self, patterns, i, h) ==
  IF i > Len(patterns)
  THEN Throw(ErrorV("Error", "No matching failure pattern found"), <<>>, h)
  ELSE IF isFailurePattern(patterns[i])
  THEN LET cb == patterns[i][2]
           o == Invoke(cb, self.error)
           log == <<Spy("handler", i, cb, <<self.error>>)>>
       IN  IF o.kind = "throw" THEN Throw(o.val, log, h) ELSE Ret(o.val, log, h)
  ELSE Failure_matchLoop(self, patterns, i + 1, h)

\* slip: the engine of Success run on the error
Failure_match_bug(self, patterns, h) == Success_match(Success(self.error, self.ref), patterns, h)
Failure_match(self, patterns, h) == Failure_matchLoop(self, patterns, 1, h)

\* ---------------------------------------------------------- try/catch chain
\* The chain holds either the operation's return value or the caught value.
TryChain(threw, payload, ref) ==
  [ref |-> ref, cls |-> "TryChain", threw |-> threw, payload |-> payload]

\* slip: a returned promise is taken for a failed operation
Success_try_bug(self, operation, h) ==
  LET o == Invoke(operation, self.value)
      log == <<Spy("operation", 0, operation, <<self.value>>)>>
  IN  Ret(TryChain(o.kind = "throw" \/ o.val.t = "promise", o.val, h), log, h + 1)
Success_try(self, operation, h) ==
  LET o == Invoke(operation, self.value)
      log == <<Spy("operation", 0, operation, <<self.value>>)>>
  IN  Ret(TryChain(o.kind = "throw", o.val, h), log, h + 1)

\* slip: the operation is run on the error
Failure_try_bug(self, operation, h) == Success_try(Success(self.error, self.ref), operation, h)
Failure_try(self, operation, h) == Ret(TryChain(TRUE, self.error, h), <<>>, h + 1)

\* slip: the handler's result is taken for a recovered value
TryChain_catch_bug(self, errorHandler, h) ==
  IF self.threw
  THEN LET o == Invoke(errorHandler, self.payload)
           log == <<Spy("errorHandler", 0, errorHandler, <<self.payload>>)>>
       IN  IF o.kind = "throw" THEN Throw(o.val, log, h)
           ELSE Ret(success(o.val, h), log, h + 1)
  ELSE Ret(success(self.payload, h), <<>>, h + 1)
TryChain_catch(self, errorHandler, h) ==
  IF self.threw
  THEN LET o == Invoke(errorHandler, self.payload)
           log == <<Spy("errorHandler", 0, errorHandler, <<self.payload>>)>>
       IN  IF o.kind = "throw" THEN Throw(o.val, log, h)
           ELSE Ret(failure(o.val, h), log, h + 1)
  ELSE Ret(success(self.payload, h), <<>>, h + 1)

\* slip: the chain comes back as if nothing had been thrown
TryChain_finally_bug(self, cleanup, h) ==
  LET o == Invoke(cleanup, UndefV)
      log == <<Spy("cleanup", 0, cleanup, <<>>)>>
  IN  IF o.kind = "throw" THEN Throw(o.val, log, h)
      ELSE Ret([self EXCEPT !.threw = FALSE], log, h)
TryChain_finally(self, cleanup, h) ==
  LET o == Invoke(cleanup, UndefV)
      log == <<Spy("cleanup", 0, cleanup, <<>>)>>
  IN  IF o.kind = "throw" THEN Throw(o.val, log, h) ELSE Ret(self, log, h)

\* -------------------------------------------------------- free functions
\* slip: the thrown value wrapped as is, onError forgotten
tryCatch_bug(f, onError, h) ==
  LET o == Invoke(f, UndefV)
      log == <<Spy("f", 0, f, <<>>)>>
  IN  IF o.kind = "return" THEN Ret(success(o.val, h), log, h + 1)
      ELSE Ret(failure(o.val, h), log, h + 1)
tryCatch(f, onError, h) ==
  LET o == Invoke(f, UndefV)
      log == <<Spy("f", 0, f, <<>>)>>
  IN  IF o.kind = "return" THEN Ret(success(o.val, h), log, h + 1)
      ELSE LET e == Invoke(onError, o.val)
               log2 == log \o <<Spy("onError", 0, onError, <<o.val>>)>>
           IN  IF e.kind = "throw" THEN Throw(e.val, log2, h)
               ELSE Ret(failure(e.val, h), log2, h + 1)

RECURSIVE allLoop(_, _, _, _)
allLoop(results, i, values, h) ==
  IF i > Len(results)
  THEN Ret(success(Arr(h, values), h + 1), <<>>, h + 2)
  ELSE IF isFailure(results[i]) THEN Ret(results[i], <<>>, h)
  ELSE allLoop(results, i + 1,
               IF isSuccess(results[i]) /\ "value" \in DOMAIN results[i]
               THEN Append(values, results[i].value) ELSE values,
               h)

\* a scan that keeps going and reports the last Failure instead of the first
all_bug(results, h) ==
  LET bad == {i \in 1..Len(results) : isFailure(results[i])}
  IN  IF bad = {} THEN allLoop(results, 1, <<>>, h)
      ELSE Ret(results[CHOOSE i \in bad : \A j \in bad : j <= i], <<>>, h)
all(results, h) == allLoop(results, 1, <<>>, h)


\* ------------------------------------------------- method dispatch on class
Result_map(r, f, h) ==
  IF r.tag = "Success" THEN Success_map(r, f, h) ELSE Failure_map(r, f, h)
Result_flatMap(r, f, h) ==
  IF r.tag = "Success" THEN Success_flatMap(r, f, h) ELSE Failure_flatMap(r, f, h)
Result_mapError(r, f, h) ==
  IF r.tag = "Success" THEN Success_mapError(r, f, h) ELSE Failure_mapError(r, f, h)
Result_recover(r, f, h) ==
  IF r.tag = "Success" THEN Success_recover(r, f, h) ELSE Failure_recover(r, f, h)
Result_fold(r, onFailure, onSuccess, h) ==
  IF r.tag = "Success" THEN Success_fold(r, onFailure, onSuccess, h)
  ELSE Failure_fold(r, onFailure, onSuccess, h)
Result_getOrElse(r, defaultValue, h) ==
  IF r.tag = "Success" THEN Success_getOrElse(r, defaultValue, h)
  ELSE Failure_getOrElse(r, defaultValue, h)
Result_getOrThrow(r, h) ==
  IF r.tag = "Success" THEN Success_getOrThrow(r, h) ELSE Failure_getOrThrow(r, h)
Result_unwrap(r, h) ==
  IF r.tag = "Success" THEN Success_unwrap(r, h) ELSE Failure_unwrap(r, h)
Result_if(r, predicate, h) ==
  IF r.tag = "Success" THEN Success_if(r, predicate, h) ELSE Failure_if(r, predicate, h)
Result_else(r, f, h) ==
  IF r.tag = "Success" THEN Success_else(r, f, h) ELSE Failure_else(r, f, h)
Result_match(r, patterns, h) ==
  IF r.tag = "Success" THEN Success_match(r, patterns, h) ELSE Failure_match(r, patterns, h)
Result_try(r, operation, h) ==
  IF r.tag = "Success" THEN Success_try(r, operation, h) ELSE Failure_try(r, operation, h)

\* ------------------------------------------------------------ compose.ts
\* fns.reduce((acc, fn) => acc.flatMap(fn), acc0), from index i upwards
RECURSIVE fnsReduce(_, _, _, _, _)
fnsReduce(fns, i, acc, calls, h) ==
  IF i > Len(fns) THEN Ret(acc, calls, h)
  ELSE LET o == Result_flatMap(acc, fns[i], h)
           log == [j \in 1..Len(o.calls) |-> Spy("fn", i, fns[i], o.calls[j].args)]
       IN  fnsReduce(fns, i + 1, o.val, calls \o log, o.h)

\* fns.reduceRight((acc, fn) => acc.flatMap(fn), acc0), from index i downwards
RECURSIVE fnsReduceRight(_, _, _, _, _)
fnsReduceRight(fns, i, acc, calls, h) ==
  IF i < 1 THEN Ret(acc, calls, h)
  ELSE LET o == Result_flatMap(acc, fns[i], h)
           log == [j \in 1..Len(o.calls) |-> Spy("fn", i, fns[i], o.calls[j].args)]
       IN  fnsReduceRight(fns, i - 1, o.val, calls \o log, o.h)

\* slip: compose folds from the left like pipe
compose_bug(fns, initial, h) == fnsReduce(fns, 1, success(initial, h), <<>>, h + 1)
compose(fns, initial, h) == fnsReduceRight(fns, Len(fns), success(initial, h), <<>>, h + 1)

pipe(fns, initial, h) == fnsReduce(fns, 1, success(initial, h), <<>>, h + 1)

\* ------------------------------------------------------------ object.ts
\* Heap objects.  A plain object's cell holds its own enumerable properties
\* over PropKeys (Absent: no such own property), listed in the order
\* `for..in` and Object.keys walk them; "toString" is also a property every
\* plain object inherits from Object.prototype.
PropKeys == <<"a", "b", "toString">>
KeySet == {PropKeys[i] : i \in 1..Len(PropKeys)}
ProtoKeys == {"toString"}
\* a function held as a property value
NativeFn(name) == [t |-> "function", k |-> "native", name |-> name]
EmptyProps == [key \in KeySet |-> Absent]
ObjCell(props) == [props |-> props]
ArrCell(items) == [items |-> items]
Ref(t, r) == [t |-> t, ref |-> r]
EmptyHeap == <<>>
Alloc(m, r, cell) == (r :> cell) @@ m
\* target[key] = v
Store(m, r, key, v) == [m EXCEPT ![r].props[key] = v]
\* Object.prototype.hasOwnProperty.call(v, key)
HasOwn(m, v, key) == v.t = "object" /\ m[v.ref].props[key] # Absent
\* key in v: own or inherited; a TypeError when v is not an object
In(m, key, v) ==
  IF TypeOf(v) \notin {"object", "function"} \/ v.t = "null"
  THEN [kind |-> "throw", val |-> ErrorV("TypeError", "Cannot use 'in' operator")]
  ELSE [kind |-> "return", val |-> HasOwn(m, v, key) \/ key \in ProtoKeys]
\* v[key]
Get(m, v, key) ==
  IF HasOwn(m, v, key) THEN m[v.ref].props[key]
  ELSE IF key \in ProtoKeys /\ v.t \notin {"null", "undefined"} THEN NativeFn(key)
  ELSE UndefV
\* Object.keys(v)
ObjectKeys(m, v) == SelectSeq(PropKeys, LAMBDA key : HasOwn(m, v, key))

RetH(val, calls, h, m) ==
  [kind |-> "return", val |-> val, calls |-> calls, h |-> h, heap |-> m]
ThrowH(val, calls, h, m) ==
  [kind |-> "throw", val |-> val, calls |-> calls, h |-> h, heap |-> m]

\* failure(fn(...args)), fn a caller-supplied error builder
FailWith(site, fn, args, calls, h, m) ==
  LET o == Invoke(fn, IF args = <<>> THEN UndefV ELSE args[1])
      log == calls \o <<Spy(site, 0, fn, args)>>
  IN  IF o.kind = "throw" THEN ThrowH(o.val, log, h, m)
      ELSE RetH(failure(o.val, h), log, h + 1, m)

prop(key, onMissing, obj, m, h) ==
  LET i == In(m, key, obj)
  IN  IF i.kind = "throw" THEN ThrowH(i.val, <<>>, h, m)
      ELSE IF ~i.val \/ StrictEq(Get(m, obj, key), UndefV)
      THEN FailWith("onMissing", onMissing, <<>>, <<>>, h, m)
      ELSE RetH(success(Get(m, obj, key), h), <<>>, h + 1, m)

RECURSIVE pickLoop(_, _, _, _, _, _, _)
pickLoop(keys, onMissing, obj, i, result, m, h) ==
  IF i > Len(keys) THEN RetH(success(result, h), <<>>, h + 1, m)
  ELSE LET key == keys[i]
           present == In(m, key, obj)
       IN  IF present.kind = "throw" THEN ThrowH(present.val, <<>>, h, m)
           ELSE IF ~present.val
           THEN FailWith("onMissing", onMissing, <<Str(key)>>, <<>>, h, m)
           ELSE pickLoop(keys, onMissing, obj, i + 1, result,
                         Store(m, result.ref, key, Get(m, obj, key)), h)

pick(keys, onMissing, obj, m, h) ==
  pickLoop(keys, onMissing, obj, 1, Ref("object", h),
           Alloc(m, h, ObjCell(EmptyProps)), h + 1)

\* Object.keys(obj).filter(k => !keys.includes(k))
\*   .reduce((acc, key) => ({...acc, [key]: obj[key]}), {}): every step builds
\* a new accumulator object and leaves the previous one behind as garbage
RECURSIVE omitLoop(_, _, _, _, _, _)
omitLoop(kept, obj, i, acc, m, h) ==
  IF i > Len(kept) THEN RetH(success(acc, h), <<>>, h + 1, m)
  ELSE LET cell == ObjCell([m[acc.ref].props EXCEPT ![kept[i]] = Get(m, obj, kept[i])])
           m1 == [r \in (DOMAIN m \ {acc.ref}) \cup {h} |->
                    IF r = h THEN cell ELSE m[r]]
       IN  omitLoop(kept, obj, i + 1, Ref("object", h), m1, h + 1)

omit(keys, obj, m, h) ==
  omitLoop(SelectSeq(ObjectKeys(m, obj), LAMBDA k : \A j \in 1..Len(keys) : keys[j] # k),
           obj, 1, Ref("object", h), Alloc(m, h, ObjCell(EmptyProps)), h + 1)

\* path.join('.')
RECURSIVE Join(_, _)
Join(path, sep) ==
  IF path = <<>> THEN ""
  ELSE IF Len(path) = 1 THEN path[1]
  ELSE path[1] \o sep \o Join(Tail(path), sep)

RECURSIVE getPathLoop(_, _, _, _, _, _)
getPathLoop(path, onMissing, i, current, m, h) ==
  IF i > Len(path) THEN RetH(success(current, h), <<>>, h + 1, m)
  ELSE IF current.t \in {"null", "undefined"}
  THEN FailWith("onMissing", onMissing, <<Str(Join(path, "."))>>, <<>>, h, m)
  ELSE LET present == In(m, path[i], current)
       IN  IF present.kind = "throw" THEN ThrowH(present.val, <<>>, h, m)
           ELSE IF ~present.val
           THEN FailWith("onMissing", onMissing, <<Str(Join(path, "."))>>, <<>>, h, m)
           ELSE getPathLoop(path, onMissing, i + 1, Get(m, current, path[i]), m, h)

getPath(path, onMissing, obj, m, h) == getPathLoop(path, onMissing, 1, obj, m, h)

has(key, obj, m, h) ==
  LET i == In(m, key, obj)
  IN  IF i.kind = "throw" THEN ThrowH(i.val, <<>>, h, m)
      ELSE RetH(success(Bool(i.val), h), <<>>, h + 1, m)

\* (acc, key)-style callbacks of object.ts take the value first and the key second
RECURSIVE mapValuesLoop(_, _, _, _, _, _, _, _, _)
mapValuesLoop(mapper, onError, obj, keys, i, result, calls, m, h) ==
  IF i > Len(keys) THEN RetH(success(result, h), calls, h + 1, m)
  ELSE LET key == keys[i]
           mappedResult == InvokeR(mapper, Get(m, obj, key), h)
           log == calls \o <<Spy("mapper", i, mapper, <<Get(m, obj, key), Str(key)>>)>>
           pair == Result_unwrap(mappedResult.val, mappedResult.h)
       IN  IF isFailure(mappedResult.val)
           THEN FailWith("onError", onError, <<pair.val.items[2], Str(key)>>, log, pair.h, m)
           ELSE mapValuesLoop(mapper, onError, obj, keys, i + 1, result, log,
                              Store(m, result.ref, key, pair.val.items[1]), pair.h)

mapValues(mapper, onError, obj, m, h) ==
  mapValuesLoop(mapper, onError, obj, ObjectKeys(m, obj), 1, Ref("object", h), <<>>,
                Alloc(m, h, ObjCell(EmptyProps)), h + 1)

RECURSIVE filterValuesLoop(_, _, _, _, _, _, _, _, _)
filterValuesLoop(predicate, onError, obj, keys, i, result, calls, m, h) ==
  IF i > Len(keys) THEN RetH(success(result, h), calls, h + 1, m)
  ELSE LET key == keys[i]
           predicateResult == InvokeR(predicate, Get(m, obj, key), h)
           log == calls \o
                    <<Spy("predicate", i, predicate, <<Get(m, obj, key), Str(key)>>)>>
           pair == Result_unwrap(predicateResult.val, predicateResult.h)
       IN  IF isFailure(predicateResult.val)
           THEN FailWith("onError", onError, <<pair.val.items[2], Str(key)>>, log, pair.h, m)
           ELSE filterValuesLoop(predicate, onError, obj, keys, i + 1, result, log,
                                 IF Truthy(pair.val.items[1])
                                 THEN Store(m, result.ref, key, Get(m, obj, key)) ELSE m,
                                 pair.h)

filterValues(predicate, onError, obj, m, h) ==
  filterValuesLoop(predicate, onError, obj, ObjectKeys(m, obj), 1, Ref("object", h), <<>>,
                   Alloc(m, h, ObjCell(EmptyProps)), h + 1)

RECURSIVE compactLoop(_, _, _, _, _, _)
compactLoop(obj, keys, i, result, m, h) ==
  IF i > Len(keys) THEN RetH(success(result, h), <<>>, h + 1, m)
  ELSE compactLoop(obj, keys, i + 1, result,
                   IF Get(m, obj, keys[i]).t \notin {"null", "undefined"}
                   THEN Store(m, result.ref, keys[i], Get(m, obj, keys[i])) ELSE m,
                   h)

compact(obj, m, h) ==
  compactLoop(obj, ObjectKeys(m, obj), 1, Ref("object", h),
              Alloc(m, h, ObjCell(EmptyProps)), h + 1)

isObjectEmpty(obj, m, h) ==
  RetH(success(Bool(Len(ObjectKeys(m, obj)) = 0), h), <<>>, h + 1, m)

\* conflict resolvers: (key, target, source) =>
\*   failOn.includes(key) ? failure(key) : success(pick = "target" ? target : source)
RFn3(failOn, side) == [k |-> "rfn3", failOn |-> failOn, pick |-> side]
InvokeR3(f, key, target, source, h) ==
  [kind |-> "return",
   val |-> IF key \in f.failOn THEN failure(Str(key), h)
           ELSE success(IF f.pick = "target" THEN target ELSE source, h),
   h |-> h + 1]

\* the two nested loops of merge: source i, and key j of that source
RECURSIVE mergeLoop(_, _, _, _, _, _, _, _)
mergeLoop(onConflict, sources, i, j, result, calls, m, h) ==
  IF i > Len(sources) THEN RetH(success(result, h), calls, h + 1, m)
  ELSE LET source == sources[i]
           keys == ObjectKeys(m, source)
       IN  IF j > Len(keys)
           THEN mergeLoop(onConflict, sources, i + 1, 1, result, calls, m, h)
           ELSE LET key == keys[j]
                IN  IF In(m, key, result).val
                    THEN LET conflictResult ==
                               InvokeR3(onConflict, key, Get(m, result, key),
                                        Get(m, source, key), h)
                             log == calls \o
                                      <<Spy("onConflict", i, onConflict,
                                            <<Str(key), Get(m, result, key),
                                              Get(m, source, key)>>)>>
                             pair == Result_unwrap(conflictResult.val, conflictResult.h)
                         IN  IF isFailure(conflictResult.val)
                             THEN RetH(conflictResult.val, log, conflictResult.h, m)
                             ELSE mergeLoop(onConflict, sources, i, j + 1, result, log,
                                            Store(m, result.ref, key, pair.val.items[1]),
                                            pair.h)
                    ELSE mergeLoop(onConflict, sources, i, j + 1, result, calls,
                                   Store(m, result.ref, key, Get(m, source, key)), h)

merge(onConflict, sources, m, h) ==
  mergeLoop(onConflict, sources, 1, 1, Ref("object", h), <<>>,
            Alloc(m, h, ObjCell(EmptyProps)), h + 1)

\* {...from}: the own enumerable properties of from are defined on the target
RECURSIVE spreadInto(_, _, _, _, _)
spreadInto(target, from, keys, i, m) ==
  IF i > Len(keys) THEN m
  ELSE spreadInto(target, from, keys, i + 1, Store(m, target.ref, keys[i], Get(m, from, keys[i])))

defaults(defaultValues, obj, m, h) ==
  LET result == Ref("object", h)
      m1 == Alloc(m, h, ObjCell(EmptyProps))
      m2 == spreadInto(result, defaultValues, ObjectKeys(m1, defaultValues), 1, m1)
      m3 == spreadInto(result, obj, ObjectKeys(m2, obj), 1, m2)
  IN  RetH(success(result, h + 1), <<>>, h + 2, m3)

keys(obj, m, h) ==
  LET ks == ObjectKeys(m, obj)
  IN  RetH(success(Ref("array", h), h + 1), <<>>, h + 2,
           Alloc(m, h, ArrCell([i \in 1..Len(ks) |-> Str(ks[i])])))

values(obj, m, h) ==
  LET ks == ObjectKeys(m, obj)
  IN  RetH(success(Ref("array", h), h + 1), <<>>, h + 2,
           Alloc(m, h, ArrCell([i \in 1..Len(ks) |-> Get(m, obj, ks[i])])))

\* Object.entries: a fresh array of fresh [key, value] arrays
entries(obj, m, h) ==
  LET ks == ObjectKeys(m, obj)
      n == Len(ks)
      m1 == [r \in DOMAIN m \cup (h..(h + n)) |->
               IF r \in DOMAIN m THEN m[r]
               ELSE IF r = h THEN ArrCell([i \in 1..n |-> Ref("array", h + i)])
               ELSE ArrCell(<<Str(ks[r - h]), Get(m, obj, ks[r - h])>>)]
  IN  RetH(success(Ref("array", h), h + n + 1), <<>>, h + n + 2, m1)

\* ---- clone
DefaultMaxDepth == 10
\* const { maxDepth = 10 } = options
MaxDepthOf(options) ==
  IF options.maxDepth = UndefV THEN DefaultMaxDepth ELSE options.maxDepth.n

RECURSIVE cloneRecursive(_, _, _, _, _, _)
RECURSIVE cloneItems(_, _, _, _, _, _, _, _, _)
RECURSIVE cloneProps(_, _, _, _, _, _, _, _, _, _)

\* slip: past maxDepth the value is handed back as it is instead of failing
cloneRecursive_bug(value, currentDepth, maxDepth, onDepthExceeded, m, h) ==
  IF currentDepth > maxDepth \/ value.t = "null" \/ TypeOf(value) # "object"
  THEN RetH(success(value, h), <<>>, h + 1, m)
  ELSE IF value.t = "array"
  THEN cloneItems(value, 1, Ref("array", h), currentDepth, maxDepth, onDepthExceeded,
                  <<>>, Alloc(m, h, ArrCell(<<>>)), h + 1)
  ELSE cloneProps(value, ObjectKeys(m, value), 1, Ref("object", h), currentDepth, maxDepth,
                  onDepthExceeded, <<>>, Alloc(m, h, ObjCell(EmptyProps)), h + 1)
cloneRecursive(value, currentDepth, maxDepth, onDepthExceeded, m, h) ==
  IF currentDepth > maxDepth
  THEN FailWith("onDepthExceeded", onDepthExceeded, <<Num(currentDepth)>>, <<>>, h, m)
  ELSE IF value.t = "null" \/ TypeOf(value) # "object"
  THEN RetH(success(value, h), <<>>, h + 1, m)
  ELSE IF value.t = "array"
  THEN cloneItems(value, 1, Ref("array", h), currentDepth, maxDepth, onDepthExceeded,
                  <<>>, Alloc(m, h, ArrCell(<<>>)), h + 1)
  ELSE cloneProps(value, ObjectKeys(m, value), 1, Ref("object", h), currentDepth, maxDepth,
                  onDepthExceeded, <<>>, Alloc(m, h, ObjCell(EmptyProps)), h + 1)

cloneItems(value, i, clonedArray, currentDepth, maxDepth, onDepthExceeded, calls, m, h) ==
  IF i > Len(m[value.ref].items) THEN RetH(success(clonedArray, h), calls, h + 1, m)
  ELSE LET clonedItem == cloneRecursive(m[value.ref].items[i], currentDepth + 1, maxDepth,
                                        onDepthExceeded, m, h)
           log == calls \o clonedItem.calls
       IN  IF clonedItem.kind = "throw" THEN [clonedItem EXCEPT !.calls = log]
           ELSE IF isFailure(clonedItem.val) THEN [clonedItem EXCEPT !.calls = log]
           ELSE LET pair == Result_unwrap(clonedItem.val, clonedItem.h)
                IN  cloneItems(value, i + 1, clonedArray, currentDepth, maxDepth,
                               onDepthExceeded, log,
                               [clonedItem.heap EXCEPT ![clonedArray.ref].items =
                                                         Append(@, pair.val.items[1])],
                               pair.h)

cloneProps(value, ks, j, clonedObj, currentDepth, maxDepth, onDepthExceeded, calls, m, h) ==
  IF j > Len(ks) THEN RetH(success(clonedObj, h), calls, h + 1, m)
  ELSE LET clonedValue == cloneRecursive(Get(m, value, ks[j]), currentDepth + 1, maxDepth,
                                         onDepthExceeded, m, h)
           log == calls \o clonedValue.calls
       IN  IF clonedValue.kind = "throw" THEN [clonedValue EXCEPT !.calls = log]
           ELSE IF isFailure(clonedValue.val) THEN [clonedValue EXCEPT !.calls = log]
           ELSE LET pair == Result_unwrap(clonedValue.val, clonedValue.h)
                IN  cloneProps(value, ks, j + 1, clonedObj, currentDepth, maxDepth,
                               onDepthExceeded, log,
                               Store(clonedValue.heap, clonedObj.ref, ks[j],
                                     pair.val.items[1]),
                               pair.h)

\* slip: the root counted as depth 1
clone_bug(options, onDepthExceeded, obj, m, h) ==
  cloneRecursive(obj, 1, MaxDepthOf(options), onDepthExceeded, m, h)
clone(options, onDepthExceeded, obj, m, h) ==
  cloneRecursive(obj, 0, MaxDepthOf(options), onDepthExceeded, m, h)

\* --------------------------------------------------------- host promises
\* String(v)
Digits == <<"0", "1", "2", "3", "4", "5", "6", "7", "8", "9">>
RECURSIVE NumToString(_)
NumToString(n) ==
  IF n < 0 THEN "-" \o NumToString(0 - n)
  ELSE IF n < 10 THEN Digits[n + 1]
  ELSE NumToString(n \div 10) \o Digits[(n % 10) + 1]
String(v) ==
  CASE v.t = "null" -> "null"
    [] v.t = "undefined" -> "undefined"
    [] v.t = "number" -> NumToString(v.n)
    [] v.t = "boolean" -> IF v.b THEN "true" ELSE "false"
    [] v.t = "string" -> v.s
    [] v.t = "error" ->
         IF v.message = "" THEN v.name ELSE v.name \o ": " \o v.message
    [] v.t = "object" -> "[object Object]"

\* error instanceof Error
InstanceOfError(v) == v.t = "error"

\* a promise: its state, its settled value, the reactions registered on it
\* while pending, and for the promise of an async function the promise its
\* suspended body awaits (0: none)
Promise(st, val) == [st |-> st, val |-> val, reactions |-> <<>>, awaiting |-> 0]
PromiseRef(id) == [t |-> "promise", id |-> id]
NoHandler == UndefV
Reaction(onFulfilled, onRejected, target) ==
  [onFulfilled |-> onFulfilled, onRejected |-> onRejected, target |-> target]
Job(reaction, st, val) == [reaction |-> reaction, st |-> st, val |-> val]

\* PerformPromiseThen: register the reaction, or queue its job at once when
\* the promise is already settled
PromiseReact(P, J, id, r) ==
  IF P[id].st = "pending"
  THEN [proms |-> [P EXCEPT ![id].reactions = Append(@, r)], jobs |-> J]
  ELSE [proms |-> P, jobs |-> Append(J, Job(r, P[id].st, P[id].val))]

\* promise.then(onFulfilled, onRejected): a new derived promise
PromiseThen(P, J, id, onFulfilled, onRejected) ==
  LET d == Len(P) + 1
      o == PromiseReact(Append(P, Promise("pending", UndefV)), J, id,
                        Reaction(onFulfilled, onRejected, d))
  IN  [proms |-> o.proms, jobs |-> o.jobs, id |-> d]

\* promise.catch(onRejected)
PromiseCatch(P, J, id, onRejected) == PromiseThen(P, J, id, NoHandler, onRejected)

\* settling a pending promise queues one job per registered reaction
SettlePromise(P, J, id, st, val) ==
  IF P[id].st # "pending" THEN [proms |-> P, jobs |-> J]
  ELSE [proms |-> [P EXCEPT ![id].st = st, ![id].val = val, ![id].reactions = <<>>],
        jobs |-> J \o [i \in 1..Len(P[id].reactions) |->
                          Job(P[id].reactions[i], st, val)]]

\* the closures result.ts hands to the host
\*   value => success(value)
WrapSuccess == [k |-> "wrapSuccess"]
\*   error => failure(onError(error))
FailOnError(onError) == [k |-> "failOnError", onError |-> onError]
\*   error => failure(error instanceof Error ? error : new Error(String(error)))
FailWrap == [k |-> "failWrap"]
\* the body of fromPromiseTuple after its await: return result.unwrap()
ResumeUnwrap == [k |-> "resumeUnwrap"]
\* an await whose promise rejected throws the reason into the body
ResumeThrow == [k |-> "resumeThrow"]

CallHandler(hd, x, h) ==
  CASE hd.k = "wrapSuccess" -> Ret(success(x, h), <<>>, h + 1)
    [] hd.k = "failOnError" ->
         LET o == Invoke(hd.onError, x)
             log == <<Spy("onError", 0, hd.onError, <<x>>)>>
         IN  IF o.kind = "throw" THEN Throw(o.val, log, h)
             ELSE Ret(failure(o.val, h), log, h + 1)
    [] hd.k = "failWrap" ->
         Ret(failure(IF InstanceOfError(x) THEN x ELSE ErrorV("Error", String(x)), h),
             <<>>, h + 1)
    [] hd.k = "resumeUnwrap" -> Result_unwrap(x, h)
    [] hd.k = "resumeThrow" -> Throw(x, <<>>, h)

\* one microtask: run the reaction's handler on the settled value and settle
\* the target with its outcome; without a handler the settlement passes on
RunReaction(P, J, job, h) ==
  LET hd == IF job.st = "fulfilled" THEN job.reaction.onFulfilled
            ELSE job.reaction.onRejected
  IN  IF hd = NoHandler
      THEN [calls |-> <<>>] @@ SettlePromise(P, J, job.reaction.target, job.st, job.val)
      ELSE LET o == CallHandler(hd, job.val, h)
           IN  [calls |-> o.calls] @@
               SettlePromise(P, J, job.reaction.target,
                             IF o.kind = "throw" THEN "rejected" ELSE "fulfilled", o.val)

\* if (onError)
Supplied(onError) == TypeOf(onError) = "function" \/ Truthy(onError)

\* slip: a rejection reason is put into the Failure as it is
fromPromise_bug(promise, onError, P, J) ==
  LET a == PromiseThen(P, J, promise, WrapSuccess, NoHandler)
  IN  PromiseCatch(a.proms, a.jobs, a.id,
                   IF Supplied(onError) THEN FailOnError(onError) ELSE FailOnError(IdFn))
fromPromise(promise, onError, P, J) ==
  IF Supplied(onError)
  THEN LET a == PromiseThen(P, J, promise, WrapSuccess, NoHandler)
       IN  PromiseCatch(a.proms, a.jobs, a.id, FailOnError(onError))
  ELSE LET a == PromiseThen(P, J, promise, WrapSuccess, NoHandler)
       IN  PromiseCatch(a.proms, a.jobs, a.id, FailWrap)

\* slip: the tuple is taken from a Result that keeps the raw rejection reason
fromPromiseTuple_bug(promise, P, J) ==
  LET ret == Len(P) + 1
      inner == fromPromise(promise, IdFn, Append(P, Promise("pending", UndefV)), J)
      o == PromiseReact([inner.proms EXCEPT ![ret].awaiting = inner.id], inner.jobs,
                        inner.id, Reaction(ResumeUnwrap, ResumeThrow, ret))
  IN  [proms |-> o.proms, jobs |-> o.jobs, id |-> ret]
\* an async function: its promise is created at the call, the body runs up to
\* the await and is resumed by a reaction on the awaited promise
fromPromiseTuple(promise, P, J) ==
  LET ret == Len(P) + 1
      inner == fromPromise(promise, UndefV, Append(P, Promise("pending", UndefV)), J)
      o == PromiseReact([inner.proms EXCEPT ![ret].awaiting = inner.id], inner.jobs,
                        inner.id, Reaction(ResumeUnwrap, ResumeThrow, ret))
  IN  [proms |-> o.proms, jobs |-> o.jobs, id |-> ret]

\* ---- composeAsync / pipeAsync
\* a stage: x => Promise<Result>, the promise fulfilling with rfn(x) at once
\* ("now") or when the environment gets to it ("later")
AStage(rfn, when) == [k |-> "astage", rfn |-> rfn, when |-> when]
\* the continuation of the async body after its await
ResumeStage == [k |-> "resumeStage"]
\* for (let i = fns.length - 1; i >= 0; i--) / for (const fn of fns)
FirstIdx(op, fns) == IF op = "pipeAsync" THEN 1 ELSE Len(fns)
NextIdx(op, i) == IF op = "pipeAsync" THEN i + 1 ELSE i - 1
LoopDone(op, fns, i) == IF op = "pipeAsync" THEN i > Len(fns) ELSE i < 1
\* (result as any).value
AnyValue(result) == IF result.tag = "Success" THEN result.value ELSE UndefV

\* slip: the loop goes on after a Failure
asyncLoop_bug(op, fns, i, result, P, J, h) ==
  IF LoopDone(op, fns, i)
  THEN [calls |-> <<>>, i |-> i] @@ SettlePromise(P, J, 1, "fulfilled", result)
  ELSE LET fn == fns[i]
           x == AnyValue(result)
           d == Len(P) + 1
           stage == IF fn.when = "now" THEN Promise("fulfilled", InvokeR(fn.rfn, x, h).val)
                    ELSE Promise("pending", UndefV)
           o == PromiseReact(Append(P, stage), J, d, Reaction(ResumeStage, ResumeThrow, 1))
       IN  [calls |-> <<Spy("fn", i, fn, <<x>>)>>, i |-> NextIdx(op, i),
            proms |-> o.proms, jobs |-> o.jobs]
\* the body of the async function from the loop test at index i up to its
\* next await or its return: a finished loop or a Failure fulfils the
\* function's promise (proms[1]); otherwise stage i is invoked and the body
\* waits for the promise it returned
asyncLoop(op, fns, i, result, P, J, h) ==
  IF LoopDone(op, fns, i) \/ isFailure(result)
  THEN [calls |-> <<>>, i |-> i] @@ SettlePromise(P, J, 1, "fulfilled", result)
  ELSE LET fn == fns[i]
           x == AnyValue(result)
           d == Len(P) + 1
           stage == IF fn.when = "now" THEN Promise("fulfilled", InvokeR(fn.rfn, x, h).val)
                    ELSE Promise("pending", UndefV)
           o == PromiseReact(Append(P, stage), J, d, Reaction(ResumeStage, ResumeThrow, 1))
       IN  [calls |-> <<Spy("fn", i, fn, <<x>>)>>, i |-> NextIdx(op, i),
            proms |-> o.proms, jobs |-> o.jobs]

\* the call: let result = success(initial), then the loop
composeAsync(fns, initial, h) ==
  asyncLoop("composeAsync", fns, FirstIdx("composeAsync", fns), success(initial, h),
            <<Promise("pending", UndefV)>>, <<>>, h + 1)
pipeAsync(fns, initial, h) ==
  asyncLoop("pipeAsync", fns, FirstIdx("pipeAsync", fns), success(initial, h),
            <<Promise("pending", UndefV)>>, <<>>, h + 1)

\* --------------------------------------------------------- array operators
RECURSIVE mapLoop(_, _, _, _, _, _)
mapLoop(fn, arr, i, results, calls, h) ==
  IF i > Len(arr.items)
  THEN Ret(success(Arr(h, [j \in 1..Len(results) |-> results[j].value]), h + 1),
           calls, h + 2)
  ELSE LET o == InvokeR(fn, arr.items[i], h)
           log == calls \o <<Spy("fn", i, fn, <<arr.items[i]>>)>>
       IN  IF isFailure(o.val) THEN Ret(o.val, log, o.h)
           ELSE mapLoop(fn, arr, i + 1, Append(results, o.val), log, o.h)

\* slip: maps every element first and looks for a Failure afterwards
RECURSIVE mapAllThenScan(_, _, _, _, _, _)
mapAllThenScan(fn, arr, i, results, calls, h) ==
  IF i > Len(arr.items)
  THEN LET bad == {j \in 1..Len(results) : isFailure(results[j])}
       IN  IF bad # {}
           THEN Ret(results[CHOOSE j \in bad : \A k \in bad : j <= k], calls, h)
           ELSE Ret(success(Arr(h, [j \in 1..Len(results) |-> results[j].value]), h + 1),
                    calls, h + 2)
  ELSE LET o == InvokeR(fn, arr.items[i], h)
       IN  mapAllThenScan(fn, arr, i + 1, Append(results, o.val),
                          calls \o <<Spy("fn", i, fn, <<arr.items[i]>>)>>, o.h)
mapImpl_bug(fn, arr, h) == mapAllThenScan(fn, arr, 1, <<>>, <<>>, h)
mapImpl(fn, arr, h) == mapLoop(fn, arr, 1, <<>>, <<>>, h)

RECURSIVE filterLoop(_, _, _, _, _, _)
filterLoop(predicate, arr, i, filtered, calls, h) ==
  IF i > Len(arr.items)
  THEN Ret(success(Arr(h, filtered), h + 1), calls, h + 2)
  ELSE LET o == InvokeR(predicate, arr.items[i], h)
           log == calls \o <<Spy("predicate", i, predicate, <<arr.items[i]>>)>>
       IN  IF isFailure(o.val) THEN Ret(o.val, log, o.h)
           ELSE filterLoop(predicate, arr, i + 1,
                           IF Truthy(Result_getOrElse(o.val, Bool(FALSE), o.h).val)
                           THEN Append(filtered, arr.items[i])
                           ELSE filtered,
                           log, o.h)

filter(predicate, arr, h) == filterLoop(predicate, arr, 1, <<>>, <<>>, h)

RECURSIVE reduceLoop(_, _, _, _, _, _, _)
reduceLoop(fn, initial, arr, i, acc, calls, h) ==
  IF i > Len(arr.items)
  THEN Ret(success(acc, h), calls, h + 1)
  ELSE LET o == InvokeR2(fn, acc, arr.items[i], h)
           log == calls \o <<Spy("fn", i, fn, <<acc, arr.items[i]>>)>>
       IN  IF isFailure(o.val) THEN Ret(o.val, log, o.h)
           ELSE reduceLoop(fn, initial, arr, i + 1,
                           Result_getOrElse(o.val, initial, o.h).val,
                           log, o.h)

reduce(fn, initial, arr, h) == reduceLoop(fn, initial, arr, 1, initial, <<>>, h)

head(arr, errorFn, h) ==
  IF Len(arr.items) = 0
  THEN LET o == Invoke(errorFn, UndefV)
           log == <<Spy("errorFn", 0, errorFn, <<>>)>>
       IN  IF o.kind = "throw" THEN Throw(o.val, log, h)
           ELSE Ret(failure(o.val, h), log, h + 1)
  ELSE Ret(success(arr.items[1], h), <<>>, h + 1)

\* arr.slice(1) is a fresh array
tail(arr, h) ==
  Ret(success(Arr(h, IF Len(arr.items) = 0 THEN <<>> ELSE Tail(arr.items)), h + 1),
      <<>>, h + 2)

\* index counts from 0
\* slip: an undefined element taken for a missing one
get_bug(index, errorFn, arr, h) ==
  IF index < 0 \/ index >= Len(arr.items) \/ arr.items[index + 1] = UndefV
  THEN LET o == Invoke(errorFn, Num(index))
           log == <<Spy("errorFn", 0, errorFn, <<Num(index)>>)>>
       IN  IF o.kind = "throw" THEN Throw(o.val, log, h)
           ELSE Ret(failure(o.val, h), log, h + 1)
  ELSE Ret(success(arr.items[index + 1], h), <<>>, h + 1)
get(index, errorFn, arr, h) ==
  IF index < 0 \/ index >= Len(arr.items)
  THEN LET o == Invoke(errorFn, Num(index))
           log == <<Spy("errorFn", 0, errorFn, <<Num(index)>>)>>
       IN  IF o.kind = "throw" THEN Throw(o.val, log, h)
           ELSE Ret(failure(o.val, h), log, h + 1)
  ELSE Ret(success(arr.items[index + 1], h), <<>>, h + 1)

isEmpty(arr, h) == Ret(success(Bool(Len(arr.items) = 0), h), <<>>, h + 1)

length(arr, h) == Ret(success(Num(Len(arr.items)), h), <<>>, h + 1)

\* ------------------------------------------------------- the caller's inputs
FailSets == {{}, {Num(0), NullV}, Vals}
RFns == {RFn(s, g) : s \in FailSets, g \in {IdFn, IncFn}}
PredRFns == {RFn(s, g) : s \in {{}, {Num(MaxNum)}}, g \in {InFn({Num(0), NullV}), InFn(Vals)}}
RFn2s == {RFn2(s, pk) : s \in {{}, {Num(MaxNum)}}, pk \in {"first", "last"}}

Handlers == {IdFn, ConstFn(NullV)}
Guards == {InFn({Num(0), NullV}), IdFn}
Destructs == {Obj(-100, [a |-> Absent, b |-> Absent]),
              Obj(-101, [a |-> Num(0), b |-> Absent])}
PatternSet ==
  {<<FailureCtor, hd>> : hd \in Handlers}
    \cup {<<SuccessCtor, hd>> : hd \in Handlers}
    \cup {<<SuccessCtor, g, hd>> : g \in Guards, hd \in Handlers}
    \cup {<<SuccessCtor, d, hd>> : d \in Destructs, hd \in Handlers}
PatternLists == UNION {[1..n -> PatternSet] : n \in 0..MaxPatterns}
\* payloads and destructuring objects with nested objects and undefined:
\* Inner and InnerTwin look alike and are two objects
Inner == Obj(-50, [a |-> Num(0), b |-> Absent])
InnerTwin == Obj(-51, [a |-> Num(0), b |-> Absent])
NestedVals ==
  {Obj(-60, [a |-> Inner, b |-> Num(0)]),
   Obj(-61, [a |-> InnerTwin, b |-> Num(0)]),
   Obj(-62, [a |-> UndefV, b |-> Num(0)]),
   Obj(-63, [a |-> Absent, b |-> Num(0)])}
NestedDestructs ==
  {Obj(-102, [a |-> Inner, b |-> Absent]),
   Obj(-103, [a |-> UndefV, b |-> Absent]),
   Obj(-104, [a |-> Absent, b |-> Num(0)]),
   Obj(-105, [a |-> Num(0), b |-> Num(0)])}

\* what a source promise fulfils with or rejects with
Settled == Vals \cup {Str("ok")}
Reasons == {NullV, UndefV, Num(0), Str("boom"), ErrorV("Error", "net"),
            ErrorV("TypeError", ""), Obj(-1, [a |-> Num(0), b |-> Absent])}
\* the promise the caller passes: still pending or already settled
SourcePromises ==
  {Promise("pending", UndefV)}
    \cup {Promise("fulfilled", v) : v \in Settled}
    \cup {Promise("rejected", e) : e \in Reasons}
OnErrors == {UndefV, IdFn, ConstFn(NullV), ThrowFn(Num(0))}

\* ---- the objects handed to the object operators
\* what a property or an array slot may hold besides a nested object
Leaves == {NullV, UndefV, Num(0), NativeFn("f")}
\* values nested at most d deep, with their heap; the root cell sits at ref r
\* and its descendants at r - 1, r - 2, ...
RECURSIVE Build(_, _)
Build(d, r) ==
  {[heap |-> EmptyHeap, val |-> leaf] : leaf \in Leaves}
    \cup (IF d = 0 THEN {}
          ELSE LET subs == Build(d - 1, r - 1)
               IN  {[heap |-> Alloc(sub.heap, r,
                                    ObjCell([EmptyProps EXCEPT !["a"] = sub.val,
                                                               !["b"] = bv])),
                     val |-> Ref("object", r)] : sub \in subs, bv \in {Absent, Num(MaxNum)}}
                     \cup {[heap |-> Alloc(sub.heap, r, ArrCell(<<sub.val>>)),
                            val |-> Ref("array", r)] : sub \in subs})
\* one-level objects over all their keys
FlatProps ==
  {[EmptyProps EXCEPT !["a"] = av, !["b"] = bv, !["toString"] = tv] :
     av \in {Absent, UndefV, NullV, Num(0)}, bv \in {Absent, UndefV, NullV, Num(MaxNum)},
     tv \in {Absent, Num(0)}}
FlatObjs ==
  {[heap |-> Alloc(EmptyHeap, -1, ObjCell(props)), val |-> Ref("object", -1)] :
     props \in FlatProps}
ObjInputs == FlatObjs \cup {x \in Build(MaxDepth, -1) : x.val.t = "object"}
KeyLists == UNION {[1..n -> KeySet] : n \in 0..2}
Paths == UNION {[1..n -> {"a", "b"}] : n \in 0..MaxDepth}
OnMissings == {IdFn, ConstFn(Str("missing"))}

\* the sources handed to merge (source i sits at ref -i) and the resolvers
SourceProps ==
  {[EmptyProps EXCEPT !["a"] = av, !["b"] = bv, !["toString"] = tv] :
     av \in {Absent, Num(0), Num(MaxNum)}, bv \in {Absent, Num(0)}, tv \in {Absent, Num(0)}}
SourceLists == UNION {[1..n -> SourceProps] : n \in 0..MaxSources}
SourceHeap(props) == [r \in {0 - i : i \in 1..Len(props)} |-> ObjCell(props[0 - r])]
Resolvers == {RFn3(s, pk) : s \in {{}, {"b"}}, pk \in {"target", "source"}}
\* the other object callbacks
ObjOnErrors == {IdFn, ConstFn(NullV)}
CloneOptions == {[maxDepth |-> UndefV]} \cup {[maxDepth |-> Num(n)] : n \in 0..MaxDepth}
\* an object that contains itself: {a: <itself>}
CyclicObj ==
  [heap |-> Alloc(EmptyHeap, -1, ObjCell([EmptyProps EXCEPT !["a"] = Ref("object", -1)])),
   val |-> Ref("object", -1)]
\* an array that contains itself: [<itself>]
CyclicArr ==
  [heap |-> Alloc(EmptyHeap, -1, ArrCell(<<Ref("array", -1)>>)),
   val |-> Ref("array", -1)]
\* a cycle through two containers: {a: [null, <the object>], b: 0}
CyclicPair ==
  [heap |-> Alloc(Alloc(EmptyHeap, -2, ArrCell(<<NullV, Ref("object", -1)>>)), -1,
                  ObjCell([EmptyProps EXCEPT !["a"] = Ref("array", -2), !["b"] = Num(0)])),
   val |-> Ref("object", -1)]
CloneInputs ==
  Build(MaxDepth + 1, -1) \cup FlatObjs \cup {CyclicObj, CyclicArr, CyclicPair}

\* the stages handed to composeAsync / pipeAsync
StageRFns == {RFn(s, g) : s \in {{}, {Num(0)}}, g \in {IdFn, IncFn}}
StageLists ==
  UNION {[1..n -> {AStage(r, w) : r \in StageRFns, w \in {"now", "later"}}] :
           n \in 0..MaxFns}
FnLists == UNION {[1..n -> RFns] : n \in 0..MaxFns}

ArrItems == Nums \cup {UndefV}
Arrays == UNION {[1..n -> ArrItems] : n \in 0..MaxLen}
\* arrays that also hold null, for the element accessors
SlotArrays == UNION {[1..n -> ArrItems \cup {NullV}] : n \in 0..MaxLen}

\* ------------------------------------------------------------ state machine
Nothing == [tag |-> "none"]
NoChain == [cls |-> "none"]

Call(op, recv, args, o) ==
  [op |-> op, recv |-> recv, args |-> args,
   kind |-> o.kind, val |-> o.val, calls |-> o.calls]

\* heap: the held Result lives at 0, an array it carries at 1, the chain at 2
Min(a, b) == IF a < b THEN a ELSE b
CanonVal(v) == IF v.t = "array" /\ v.ref >= 0 THEN [v EXCEPT !.ref = 1] ELSE v
Canon(r) ==
  IF r.tag = "Success" THEN Success(CanonVal(r.value), 0)
  ELSE Failure(CanonVal(r.error), 0)
CanonChain(c) ==
  IF c.cls = "ConditionalChain" THEN [c EXCEPT !.ref = 2, !.result = Canon(c.result)]
  ELSE [c EXCEPT !.ref = 2]
\* the first address no held object occupies
HeldRefs == 0..2
FreshRef == 1 + CHOOSE m \in HeldRefs : \A x \in HeldRefs : x <= m

Init ==
  /\ pc = "idle"
  /\ cur = Nothing
  /\ chain = NoChain
  /\ last = Call("none", NullV, <<>>, Ret(NullV, <<>>, 0))
  /\ hist = <<>>
  /\ spy = <<>>
  /\ runFrom = Nothing
  /\ runLen = 0
  /\ runCalls = 0
  /\ proms = <<>>
  /\ jobs = <<>>
  /\ heap = <<>>

\* the run of map/flatMap calls ends; a new one may start from the Result r
ResetRun(r) ==
  /\ runFrom' = IF r.tag = "Failure" THEN r ELSE Nothing
  /\ runLen' = 0
  /\ runCalls' = 0

ExtendRun(o) ==
  IF runFrom = Nothing THEN UNCHANGED <<runFrom, runLen, runCalls>>
  ELSE /\ runFrom' = runFrom
       /\ runLen' = Min(runLen + 1, MaxSteps)
       /\ runCalls' = Min(runCalls + Len(o.calls), MaxSteps)

\* a call that begins a new fluent chain with the Result o.val
Begin(op, args, o) ==
  /\ pc = "idle"
  /\ pc' = "result"
  /\ cur' = Canon(o.val)
  /\ chain' = NoChain
  /\ last' = Call(op, NullV, args, o)
  /\ hist' = <<[op |-> op, recv |-> NullV, args |-> args]>>
  /\ spy' = o.calls
  /\ ResetRun(Canon(o.val))
  /\ UNCHANGED <<proms, jobs, heap>>

\* a method call on the held Result that returns the next Result of the chain
Step(op, args, o) ==
  /\ pc = "result"
  /\ pc' = IF o.kind = "throw" THEN "exited" ELSE "result"
  /\ cur' = IF o.kind = "throw" THEN cur ELSE Canon(o.val)
  /\ chain' = NoChain
  /\ last' = Call(op, cur, args, o)
  /\ hist' = <<[op |-> op, recv |-> cur, args |-> args]>>
  /\ spy' = o.calls
  /\ IF op \in {"map", "flatMap"} /\ o.kind = "return" THEN ExtendRun(o)
     ELSE ResetRun(IF o.kind = "throw" THEN Nothing ELSE Canon(o.val))
  /\ UNCHANGED <<proms, jobs, heap>>

\* a method call on the held Result that leaves Result-space
Exit(op, args, o) ==
  /\ pc = "result"
  /\ pc' = "exited"
  /\ last' = Call(op, cur, args, o)
  /\ hist' = <<[op |-> op, recv |-> cur, args |-> args]>>
  /\ spy' = o.calls
  /\ ResetRun(Nothing)
  /\ UNCHANGED <<cur, chain>>
  /\ UNCHANGED <<proms, jobs, heap>>

\* entering, continuing and resolving a chain object
Enter(op, args, o, next) ==
  /\ pc = "result"
  /\ pc' = IF o.kind = "throw" THEN "exited" ELSE next
  /\ chain' = IF o.kind = "throw" THEN NoChain ELSE CanonChain(o.val)
  /\ last' = Call(op, cur, args, o)
  /\ hist' = <<[op |-> op, recv |-> cur, args |-> args]>>
  /\ spy' = o.calls
  /\ ResetRun(Nothing)
  /\ UNCHANGED cur
  /\ UNCHANGED <<proms, jobs, heap>>

Continue(op, args, o, at) ==
  /\ pc = at
  /\ Len(hist) <= MaxSteps
  /\ pc' = IF o.kind = "throw" THEN "exited" ELSE at
  /\ chain' = IF o.kind = "throw" THEN NoChain ELSE CanonChain(o.val)
  /\ last' = Call(op, chain, args, o)
  /\ hist' = Append(hist, [op |-> op, recv |-> chain, args |-> args])
  /\ spy' = spy \o o.calls
  /\ UNCHANGED <<cur, runFrom, runLen, runCalls>>
  /\ UNCHANGED <<proms, jobs, heap>>

Resolve(op, args, o, at) ==
  /\ pc = at
  /\ pc' = IF o.kind = "throw" THEN "exited" ELSE "result"
  /\ cur' = IF o.kind = "throw" THEN cur ELSE Canon(o.val)
  /\ chain' = NoChain
  /\ last' = Call(op, chain, args, o)
  /\ hist' = Append(hist, [op |-> op, recv |-> chain, args |-> args])
  /\ spy' = spy \o o.calls
  /\ ResetRun(IF o.kind = "throw" THEN Nothing ELSE Canon(o.val))
  /\ UNCHANGED <<proms, jobs, heap>>

CallSuccess ==
  /\ pc = "idle"
  /\ \E v \in Vals : Begin("success", <<v>>, Ret(success(v, FreshRef), <<>>, FreshRef + 1))

CallFailure ==
  /\ pc = "idle"
  /\ \E e \in Vals : Begin("failure", <<e>>, Ret(failure(e, FreshRef), <<>>, FreshRef + 1))

Map ==
  /\ pc = "result"
  /\ \E f \in Fns : Step("map", <<f>>, Result_map(cur, f, FreshRef))

FlatMap ==
  /\ pc = "result"
  /\ \E f \in RFns : Step("flatMap", <<f>>, Result_flatMap(cur, f, FreshRef))

MapError ==
  /\ pc = "result"
  /\ \E f \in Fns : Step("mapError", <<f>>, Result_mapError(cur, f, FreshRef))

Recover ==
  /\ pc = "result"
  /\ \E f \in Fns : Step("recover", <<f>>, Result_recover(cur, f, FreshRef))

ResultElse ==
  /\ pc = "result"
  /\ \E f \in PureFns : Step("Result.else", <<f>>, Result_else(cur, f, FreshRef))

Fold ==
  /\ pc = "result"
  /\ \E onFailure \in {IdFn}, onSuccess \in {IncFn} :
       Exit("fold", <<onFailure, onSuccess>>, Result_fold(cur, onFailure, onSuccess, FreshRef))

GetOrElse ==
  /\ pc = "result"
  /\ \E d \in {NullV, Num(0)} : Exit("getOrElse", <<d>>, Result_getOrElse(cur, d, FreshRef))

GetOrThrow ==
  /\ pc = "result"
  /\ Exit("getOrThrow", <<>>, Result_getOrThrow(cur, FreshRef))

Unwrap ==
  /\ pc = "result"
  /\ Exit("unwrap", <<>>, Result_unwrap(cur, FreshRef))

\* success(v) of a payload with nested objects
CallSuccessNested ==
  /\ pc = "idle"
  /\ \E v \in NestedVals :
       Begin("success", <<v>>, Ret(success(v, FreshRef), <<>>, FreshRef + 1))

\* r.match([[success, d, hd], ...rest]) with a destructuring tuple first
MatchDestructuring ==
  /\ pc = "result"
  /\ \E d \in Destructs \cup NestedDestructs, hd \in Handlers,
        rest \in {<<>>, <<<<SuccessCtor, ConstFn(Num(0))>>>>} :
       LET ps == <<<<SuccessCtor, d, hd>>>> \o rest
       IN  Exit("match", <<ps>>, Result_match(cur, ps, FreshRef))

Match ==
  /\ pc = "result"
  /\ \E ps \in PatternLists : Exit("match", <<ps>>, Result_match(cur, ps, FreshRef))

If ==
  /\ pc = "result"
  /\ \E p \in Preds : Enter("if", <<p>>, Result_if(cur, p, FreshRef), "cond")

Then ==
  /\ pc = "cond"
  /\ \E cb \in PureFns : Continue("then", <<cb>>, ConditionalChain_then(chain, cb, FreshRef), "cond")

Else ==
  /\ pc = "cond"
  /\ \E cb \in PureFns : Resolve("else", <<cb>>, ConditionalChain_else(chain, cb, FreshRef), "cond")

Try ==
  /\ pc = "result"
  /\ \E op \in Fns : Enter("try", <<op>>, Result_try(cur, op, FreshRef), "try")

Finally ==
  /\ pc = "try"
  /\ \E cl \in {ConstFn(UndefV)} :
       Continue("finally", <<cl>>, TryChain_finally(chain, cl, FreshRef), "try")

Catch ==
  /\ pc = "try"
  /\ \E hd \in PureFns : Resolve("catch", <<hd>>, TryChain_catch(chain, hd, FreshRef), "try")

\* r.try(async v => ...): the operation hands back a pending promise of
\* the host (proms[1]) when it is invoked
TryAsync ==
  /\ pc = "result"
  /\ LET op == AsyncFn(1)
         o == Result_try(cur, op, FreshRef)
     IN  /\ pc' = "try"
         /\ chain' = CanonChain(o.val)
         /\ last' = Call("try", cur, <<op>>, o)
         /\ hist' = <<[op |-> "try", recv |-> cur, args |-> <<op>>]>>
         /\ spy' = o.calls
         /\ proms' = IF o.calls = <<>> THEN <<>> ELSE <<Promise("pending", UndefV)>>
  /\ jobs' = <<>>
  /\ ResetRun(Nothing)
  /\ UNCHANGED <<cur, heap>>

\* the host rejects the promise the operation returned; the jobs of the
\* reactions registered on it, if any, are queued
RejectLater ==
  /\ pc \in {"try", "result"}
  /\ proms # <<>>
  /\ proms[1].st = "pending"
  /\ \E e \in Reasons :
       LET o == SettlePromise(proms, jobs, 1, "rejected", e)
       IN  proms' = o.proms /\ jobs' = o.jobs
  /\ UNCHANGED <<pc, cur, chain, last, hist, spy, runFrom, runLen, runCalls, heap>>

\* free functions: each begins a new chain
TryCatch ==
  /\ pc = "idle"
  /\ \E f \in TryFns, onError \in PureFns :
       Begin("tryCatch", <<f, onError>>, tryCatch(f, onError, FreshRef))

\* the Results handed to all(): the i-th is success(v) or failure(v)
MkResults(spec, h) ==
  [i \in 1..Len(spec) |->
     IF spec[i][1] THEN success(spec[i][2], h + i - 1) ELSE failure(spec[i][2], h + i - 1)]

All ==
  /\ pc = "idle"
  /\ \E spec \in UNION {[1..n -> BOOLEAN \X Nums] : n \in 0..MaxLen} :
       LET results == MkResults(spec, FreshRef)
       IN  Begin("all", <<results>>, all(results, FreshRef + Len(spec)))

\* the caller's input array
InArr(items) == Arr(-200, items)

ArrayMap ==
  /\ pc = "idle"
  /\ \E fn \in RFns, items \in Arrays :
       Begin("Array.map", <<fn, InArr(items)>>, mapImpl(fn, InArr(items), FreshRef))

ArrayFilter ==
  /\ pc = "idle"
  /\ \E predicate \in PredRFns, items \in Arrays :
       Begin("Array.filter", <<predicate, InArr(items)>>,
             filter(predicate, InArr(items), FreshRef))

ArrayReduce ==
  /\ pc = "idle"
  /\ \E fn \in RFn2s, initial \in {NullV, Num(0)}, items \in Arrays :
       Begin("Array.reduce", <<fn, initial, InArr(items)>>,
             reduce(fn, initial, InArr(items), FreshRef))

\* the caller lets go of whatever it holds
Drop ==
  /\ pc # "idle"
  /\ pc' = "idle"
  /\ cur' = Nothing
  /\ chain' = NoChain
  /\ last' = Call("none", NullV, <<>>, Ret(NullV, <<>>, 0))
  /\ hist' = <<>>
  /\ spy' = <<>>
  /\ ResetRun(Nothing)
  /\ proms' = <<>>
  /\ jobs' = <<>>
  /\ heap' = <<>>

ArrayHead ==
  /\ pc = "idle"
  /\ \E errorFn \in PureFns, items \in SlotArrays :
    Begin("Array.head", <<InArr(items), errorFn>>, head(InArr(items), errorFn, FreshRef))

ArrayTail ==
  /\ pc = "idle"
  /\ \E items \in Arrays : Begin("Array.tail", <<InArr(items)>>, tail(InArr(items), FreshRef))

ArrayGet ==
  /\ pc = "idle"
  /\ \E index \in -1..MaxLen, errorFn \in PureFns, items \in SlotArrays :
    Begin("Array.get", <<index, errorFn, InArr(items)>>,
          get(index, errorFn, InArr(items), FreshRef))

ArrayIsEmpty ==
  /\ pc = "idle"
  /\ \E items \in Arrays :
    Begin("Array.isEmpty", <<InArr(items)>>, isEmpty(InArr(items), FreshRef))

ArrayLength ==
  /\ pc = "idle"
  /\ \E items \in Arrays :
    Begin("Array.length", <<InArr(items)>>, length(InArr(items), FreshRef))

Compose ==
  /\ pc = "idle"
  /\ \E fns \in FnLists, initial \in Vals :
       Begin("compose", <<fns, initial>>, compose(fns, initial, FreshRef))

Pipe ==
  /\ pc = "idle"
  /\ \E fns \in FnLists, initial \in Vals :
       Begin("pipe", <<fns, initial>>, pipe(fns, initial, FreshRef))

\* ------------------------------------------------------ the Promise bridge
AsyncCall(op, args, o) ==
  /\ pc' = "async"
  /\ proms' = o.proms
  /\ jobs' = o.jobs
  /\ last' = Call(op, NullV, args, Ret(PromiseRef(o.id), <<>>, FreshRef))
  /\ hist' = <<[op |-> op, recv |-> NullV, args |-> args]>>
  /\ spy' = <<>>
  /\ cur' = Nothing
  /\ chain' = NoChain
  /\ ResetRun(Nothing)
  /\ UNCHANGED heap

FromPromise ==
  /\ pc = "idle"
  /\ \E src \in SourcePromises, onError \in OnErrors :
       AsyncCall("fromPromise", <<PromiseRef(1), onError>>,
                 fromPromise(1, onError, <<src>>, <<>>))

FromPromiseTuple ==
  /\ pc = "idle"
  /\ \E src \in SourcePromises :
       AsyncCall("fromPromiseTuple", <<PromiseRef(1)>>,
                 fromPromiseTuple(1, <<src>>, <<>>))

\* the environment settles the source promise
SettleSource ==
  /\ pc = "async"
  /\ proms[1].st = "pending"
  /\ \E p \in SourcePromises :
       /\ p.st # "pending"
       /\ LET o == SettlePromise(proms, jobs, 1, p.st, p.val)
          IN  proms' = o.proms /\ jobs' = o.jobs
  /\ UNCHANGED <<pc, cur, chain, last, hist, spy, runFrom, runLen, runCalls, heap>>

\* the host runs the oldest microtask
RunJob ==
  /\ pc = "async"
  /\ jobs # <<>>
  /\ LET o == RunReaction(proms, Tail(jobs), Head(jobs),
                          FreshRef + Head(jobs).reaction.target)
     IN  /\ proms' = o.proms
         /\ jobs' = o.jobs
         /\ spy' = spy \o o.calls
  /\ UNCHANGED <<pc, cur, chain, last, hist, runFrom, runLen, runCalls, heap>>

\* ---------------------------------------------- composeAsync and pipeAsync
\* the frame of the suspended async function: its loop index; cur is its
\* local `result`
AsyncFrame(op, fns, i) == [cls |-> "AsyncFrame", op |-> op, fns |-> fns, i |-> i]

StagesCall(op, fns, initial, o) ==
  /\ pc' = "stages"
  /\ cur' = Canon(success(initial, FreshRef))
  /\ chain' = AsyncFrame(op, fns, o.i)
  /\ proms' = o.proms
  /\ jobs' = o.jobs
  /\ last' = Call(op, NullV, <<fns, initial>>, Ret(PromiseRef(1), o.calls, FreshRef))
  /\ hist' = <<[op |-> op, recv |-> NullV, args |-> <<fns, initial>>]>>
  /\ spy' = o.calls
  /\ ResetRun(Nothing)
  /\ UNCHANGED heap

ComposeAsync ==
  /\ pc = "idle"
  /\ \E fns \in StageLists, initial \in Nums :
       StagesCall("composeAsync", fns, initial, composeAsync(fns, initial, FreshRef))

PipeAsync ==
  /\ pc = "idle"
  /\ \E fns \in StageLists, initial \in Nums :
       StagesCall("pipeAsync", fns, initial, pipeAsync(fns, initial, FreshRef))

\* the environment fulfils a pending stage promise with the stage's Result
SettleStage ==
  /\ pc = "stages"
  /\ \E id \in 2..Len(proms) :
       /\ proms[id].st = "pending"
       /\ LET c == spy[id - 1]
              o == SettlePromise(proms, jobs, id, "fulfilled",
                                 Canon(InvokeR(c.fn.rfn, c.args[1], FreshRef).val))
          IN  proms' = o.proms /\ jobs' = o.jobs
  /\ UNCHANGED <<pc, cur, chain, last, hist, spy, runFrom, runLen, runCalls, heap>>

\* the host runs the microtask that resumes the body after its await:
\* result = <the awaited Result>, i-- / next fn, and on to the loop test
ResumeBody ==
  /\ pc = "stages"
  /\ jobs # <<>>
  /\ Head(jobs).reaction.onFulfilled = ResumeStage
  /\ LET result == Canon(Head(jobs).val)
         o == asyncLoop(chain.op, chain.fns, chain.i, result, proms, Tail(jobs), FreshRef)
     IN  /\ cur' = result
         /\ chain' = [chain EXCEPT !.i = o.i]
         /\ proms' = o.proms
         /\ jobs' = o.jobs
         /\ spy' = spy \o o.calls
  /\ UNCHANGED <<pc, last, hist, runFrom, runLen, runCalls, heap>>

\* ---------------------------------------------------- the object operators
\* a call of an object operator on the heap m0; the caller takes the Result
ObjCall(op, args, m0, o) ==
  /\ pc' = "exited"
  /\ heap' = o.heap
  /\ last' = [op |-> op, recv |-> NullV, args |-> args, kind |-> o.kind,
              val |-> o.val, calls |-> o.calls, before |-> m0]
  /\ hist' = <<[op |-> op, recv |-> NullV, args |-> args]>>
  /\ spy' = o.calls
  /\ cur' = Nothing
  /\ chain' = NoChain
  /\ ResetRun(Nothing)
  /\ UNCHANGED <<proms, jobs>>

ObjProp ==
  /\ pc = "idle"
  /\ \E key \in KeySet, onMissing \in OnMissings, x \in ObjInputs :
       ObjCall("prop", <<key, onMissing, x.val>>, x.heap,
               prop(key, onMissing, x.val, x.heap, FreshRef))

ObjPick ==
  /\ pc = "idle"
  /\ \E ks \in KeyLists, onMissing \in OnMissings, x \in ObjInputs :
       ObjCall("pick", <<ks, onMissing, x.val>>, x.heap,
               pick(ks, onMissing, x.val, x.heap, FreshRef))

ObjOmit ==
  /\ pc = "idle"
  /\ \E ks \in KeyLists, x \in ObjInputs :
       ObjCall("omit", <<ks, x.val>>, x.heap, omit(ks, x.val, x.heap, FreshRef))

ObjGetPath ==
  /\ pc = "idle"
  /\ \E path \in Paths, onMissing \in OnMissings, x \in ObjInputs :
       ObjCall("getPath", <<path, onMissing, x.val>>, x.heap,
               getPath(path, onMissing, x.val, x.heap, FreshRef))

ObjHas ==
  /\ pc = "idle"
  /\ \E key \in KeySet, x \in ObjInputs :
       ObjCall("has", <<key, x.val>>, x.heap, has(key, x.val, x.heap, FreshRef))

ObjMapValues ==
  /\ pc = "idle"
  /\ \E mapper \in RFns, onError \in ObjOnErrors, x \in ObjInputs :
       ObjCall("mapValues", <<mapper, onError, x.val>>, x.heap,
               mapValues(mapper, onError, x.val, x.heap, FreshRef))

ObjFilterValues ==
  /\ pc = "idle"
  /\ \E predicate \in PredRFns, onError \in ObjOnErrors, x \in ObjInputs :
       ObjCall("filterValues", <<predicate, onError, x.val>>, x.heap,
               filterValues(predicate, onError, x.val, x.heap, FreshRef))

ObjCompact ==
  /\ pc = "idle"
  /\ \E x \in ObjInputs :
       ObjCall("compact", <<x.val>>, x.heap, compact(x.val, x.heap, FreshRef))

ObjIsEmpty ==
  /\ pc = "idle"
  /\ \E x \in ObjInputs :
       ObjCall("isObjectEmpty", <<x.val>>, x.heap, isObjectEmpty(x.val, x.heap, FreshRef))

ObjMerge ==
  /\ pc = "idle"
  /\ \E onConflict \in Resolvers, props \in SourceLists :
       LET sources == [i \in 1..Len(props) |-> Ref("object", 0 - i)]
       IN  ObjCall("merge", <<onConflict, sources>>, SourceHeap(props),
                   merge(onConflict, sources, SourceHeap(props), FreshRef))

ObjDefaults ==
  /\ pc = "idle"
  /\ \E dv \in SourceProps, x \in FlatObjs :
       LET m0 == Alloc(x.heap, -2, ObjCell(dv))
       IN  ObjCall("defaults", <<Ref("object", -2), x.val>>, m0,
                   defaults(Ref("object", -2), x.val, m0, FreshRef))

ObjKeys ==
  /\ pc = "idle"
  /\ \E x \in ObjInputs :
       ObjCall("keys", <<x.val>>, x.heap, keys(x.val, x.heap, FreshRef))

ObjValues ==
  /\ pc = "idle"
  /\ \E x \in ObjInputs :
       ObjCall("values", <<x.val>>, x.heap, values(x.val, x.heap, FreshRef))

ObjEntries ==
  /\ pc = "idle"
  /\ \E x \in ObjInputs :
       ObjCall("entries", <<x.val>>, x.heap, entries(x.val, x.heap, FreshRef))

ObjClone ==
  /\ pc = "idle"
  /\ \E options \in CloneOptions, onDepthExceeded \in OnMissings, x \in CloneInputs :
       ObjCall("clone", <<options, onDepthExceeded, x.val>>, x.heap,
               clone(options, onDepthExceeded, x.val, x.heap, FreshRef))

Next ==
  \/ Drop
  \/ CallSuccess \/ CallFailure
  \/ Map \/ FlatMap \/ MapError \/ Recover \/ ResultElse
  \/ Fold \/ GetOrElse \/ GetOrThrow \/ Unwrap
  \/ If \/ Then \/ Else
  \/ Try \/ Finally \/ Catch
  \/ TryCatch \/ All \/ ArrayMap \/ ArrayFilter \/ ArrayReduce
  \/ ArrayHead \/ ArrayTail \/ ArrayGet \/ ArrayIsEmpty \/ ArrayLength
  \/ Compose \/ Pipe

Spec == Init /\ [][Next]_vars

\* the pattern-matching engine on its own: construct a Result, match it
NextMatch ==
  \/ Drop \/ CallSuccess \/ CallFailure \/ Match
  \/ CallSuccessNested \/ MatchDestructuring

SpecMatch == Init /\ [][NextMatch]_vars

\* the try chain on its own, with operations that return a promise
NextTry ==
  \/ Drop \/ CallSuccess \/ CallFailure
  \/ Try \/ TryAsync \/ Finally \/ Catch \/ RejectLater

SpecTry == Init /\ [][NextTry]_vars

\* the async composition on its own
NextStages == Drop \/ ComposeAsync \/ PipeAsync \/ SettleStage \/ ResumeBody

SpecStages == Init /\ [][NextStages]_vars

\* the Promise bridge on its own
NextAsync == Drop \/ FromPromise \/ FromPromiseTuple \/ SettleSource \/ RunJob

SpecAsync == Init /\ [][NextAsync]_vars

\* the object operators and the array operators, one call at a time
NextObj ==
  \/ Drop
  \/ ObjProp \/ ObjPick \/ ObjOmit \/ ObjGetPath \/ ObjHas
  \/ ObjMapValues \/ ObjFilterValues \/ ObjCompact \/ ObjIsEmpty
  \/ ObjMerge \/ ObjDefaults \/ ObjKeys \/ ObjValues \/ ObjEntries \/ ObjClone
  \/ ArrayMap \/ ArrayFilter \/ ArrayReduce \/ ArrayHead \/ ArrayTail \/ ArrayGet

SpecObj == Init /\ [][NextObj]_vars

\* ================================================================= claims
\* the calls that hand a Result back to the caller
ResultOps ==
  {"success", "failure", "map", "flatMap", "mapError", "recover", "Result.else",
   "else", "catch", "tryCatch", "all", "Array.map", "Array.filter", "Array.reduce",
   "Array.head", "Array.tail", "Array.get", "Array.isEmpty", "Array.length",
   "compose", "pipe"}

\* r is exactly one of the two variants
IsVariant(r) ==
  /\ r.tag \in {"Success", "Failure"}
  /\ isSuccess(r) # isFailure(r)
  /\ isSuccess(r) <=> r.tag = "Success"
  /\ isSuccess(r) => DOMAIN r = {"ref", "tag", "value"}
  /\ isFailure(r) => DOMAIN r = {"ref", "tag", "error"}

C2_UntouchedBranch ==
  /\ (last.op \in {"map", "flatMap"} /\ last.recv.tag = "Failure") =>
        /\ last.kind = "return"
        /\ isFailure(last.val)
        /\ last.val.error = last.recv.error
        /\ last.calls = <<>>
  /\ (last.op \in {"mapError", "recover"} /\ last.recv.tag = "Success") =>
        /\ last.kind = "return"
        /\ isSuccess(last.val)
        /\ last.val.value = last.recv.value
        /\ last.calls = <<>>
  /\ runFrom # Nothing =>
        /\ pc = "result"
        /\ isFailure(cur)
        /\ cur.error = runFrom.error
        /\ runCalls = 0

C2_Witness ==
  /\ runFrom # Nothing
  /\ runLen = MaxSteps
  /\ last.op = "flatMap"
  /\ isFailure(cur)

\* what an element function does on one element, taken on its own
Fails1(fn, x) == isFailure(InvokeR(fn, x, 0).val)
ErrOf1(fn, x) == InvokeR(fn, x, 0).val.error
ValOf1(fn, x) == InvokeR(fn, x, 0).val.value
Least(S) == CHOOSE i \in S : \A j \in S : i <= j
FailIdx1(fn, items) == {i \in 1..Len(items) : Fails1(fn, items[i])}
Visited1(fn, items) ==
  IF FailIdx1(fn, items) = {} THEN Len(items) ELSE Least(FailIdx1(fn, items))

\* the accumulator of a left fold after the first n elements all succeeded
RECURSIVE FoldTo(_, _, _, _)
FoldTo(fn, initial, items, n) ==
  IF n = 0 THEN initial
  ELSE LET r == InvokeR2(fn, FoldTo(fn, initial, items, n - 1), items[n], 0).val
       IN  IF isFailure(r) THEN initial ELSE r.value
Fails2(fn, initial, items, i) ==
  isFailure(InvokeR2(fn, FoldTo(fn, initial, items, i - 1), items[i], 0).val)
FailIdx2(fn, initial, items) ==
  {i \in 1..Len(items) :
     /\ Fails2(fn, initial, items, i)
     /\ \A j \in 1..(i - 1) : ~Fails2(fn, initial, items, j)}
Visited2(fn, initial, items) ==
  IF FailIdx2(fn, initial, items) = {} THEN Len(items)
  ELSE Least(FailIdx2(fn, initial, items))

\* C3: array map, filter and reduce visit the elements in index order and stop
\* at the first element whose function result is a Failure, returning that
\* error and calling the function on no later element; with no failure they
\* return a Success: map the image in the same order, filter the subsequence
\* of the elements whose predicate value was true, reduce the left fold.
C3_FailFast ==
  /\ last.op = "Array.map" =>
       LET fn == last.args[1]
           items == last.args[2].items
           F == FailIdx1(fn, items)
       IN  /\ last.kind = "return"
           /\ last.calls =
                [i \in 1..Visited1(fn, items) |-> Spy("fn", i, fn, <<items[i]>>)]
           /\ IF F # {}
              THEN /\ isFailure(last.val)
                   /\ last.val.error = ErrOf1(fn, items[Least(F)])
              ELSE /\ isSuccess(last.val)
                   /\ last.val.value.t = "array"
                   /\ Len(last.val.value.items) = Len(items)
                   /\ \A i \in 1..Len(items) :
                        last.val.value.items[i] = ValOf1(fn, items[i])
  /\ last.op = "Array.filter" =>
       LET fn == last.args[1]
           items == last.args[2].items
           F == FailIdx1(fn, items)
           Kept(x) == ValOf1(fn, x) = Bool(TRUE)
       IN  /\ last.kind = "return"
           /\ last.calls =
                [i \in 1..Visited1(fn, items) |-> Spy("predicate", i, fn, <<items[i]>>)]
           /\ IF F # {}
              THEN /\ isFailure(last.val)
                   /\ last.val.error = ErrOf1(fn, items[Least(F)])
              ELSE /\ isSuccess(last.val)
                   /\ last.val.value.t = "array"
                   /\ last.val.value.items = SelectSeq(items, Kept)
  /\ last.op = "Array.reduce" =>
       LET fn == last.args[1]
           initial == last.args[2]
           items == last.args[3].items
           F == FailIdx2(fn, initial, items)
       IN  /\ last.kind = "return"
           /\ last.calls =
                [i \in 1..Visited2(fn, initial, items) |->
                   Spy("fn", i, fn, <<FoldTo(fn, initial, items, i - 1), items[i]>>)]
           /\ IF F # {}
              THEN /\ isFailure(last.val)
                   /\ last.val.error =
                        InvokeR2(fn, FoldTo(fn, initial, items, Least(F) - 1),
                                 items[Least(F)], 0).val.error
              ELSE /\ isSuccess(last.val)
                   /\ last.val.value = FoldTo(fn, initial, items, Len(items))

\* the second of at least three elements fails: two calls, the third unvisited
C3_Witness ==
  /\ last.op = "Array.map"
  /\ Len(last.args[2].items) > 2
  /\ isFailure(last.val)
  /\ Len(last.calls) = 2

\* when a pattern applies to a Success holding v, as the pattern rules state it
KeysMatch(d, v) ==
  \A key \in OwnKeys(d) :
    /\ v.t \notin {"null", "undefined"}
    /\ StrictEq(IF v.t = "object" /\ v.props[key] # Absent THEN v.props[key] ELSE UndefV,
                d.props[key])
Applies(pattern, v) ==
  IF pattern[1] = FailureCtor THEN FALSE
  ELSE IF Len(pattern) = 2 THEN TRUE
  ELSE IF TypeOf(pattern[2]) = "function" THEN Truthy(Invoke(pattern[2], v).val)
  ELSE KeysMatch(pattern[2], v)
Applicable(patterns, v) == {i \in 1..Len(patterns) : Applies(patterns[i], v)}
FailurePatterns(patterns) == {i \in 1..Len(patterns) : patterns[i][1] = FailureCtor}
HandlerCalls(calls) == SelectSeq(calls, LAMBDA c : c.site = "handler")

\* C4: on a Success holding v, match returns handler(v) of the first pattern
\* that applies (failure tuples skipped, a 2-tuple always, a guard iff truthy,
\* a destructuring tuple iff its keys match v), invokes exactly that handler,
\* and evaluates no guard or handler of a later pattern.
C4_FirstApplicableWins ==
  (last.op = "match" /\ last.recv.tag = "Success"
     /\ Applicable(last.args[1], last.recv.value) # {}) =>
    LET patterns == last.args[1]
        v == last.recv.value
        w == Least(Applicable(patterns, v))
        hd == patterns[w][Len(patterns[w])]
    IN  /\ last.kind = "return"
        /\ last.val = Invoke(hd, v).val
        /\ HandlerCalls(last.calls) = <<Spy("handler", w, hd, <<v>>)>>
        /\ \A k \in 1..Len(last.calls) : last.calls[k].idx <= w

\* the same statement for receivers whose value has properties to read
C4_OffNullish ==
  (last.op = "match" /\ last.recv.tag = "Success" /\ CanRead(last.recv.value))
    => C4_FirstApplicableWins

\* C5: when no pattern applies match throws, with 'No matching pattern found'
\* on a Success and 'No matching failure pattern found' on a Failure, and has
\* invoked no handler.
C5_NoMatchThrows ==
  /\ (last.op = "match" /\ last.recv.tag = "Success"
        /\ Applicable(last.args[1], last.recv.value) = {}) =>
       /\ last.kind = "throw"
       /\ last.val = ErrorV("Error", "No matching pattern found")
       /\ HandlerCalls(last.calls) = <<>>
  /\ (last.op = "match" /\ last.recv.tag = "Failure"
        /\ FailurePatterns(last.args[1]) = {}) =>
       /\ last.kind = "throw"
       /\ last.val = ErrorV("Error", "No matching failure pattern found")
       /\ HandlerCalls(last.calls) = <<>>

C5_OffNullish ==
  (last.op = "match" /\ (last.recv.tag = "Success" => CanRead(last.recv.value)))
    => C5_NoMatchThrows

SiteCalls(calls, site) == SelectSeq(calls, LAMBDA c : c.site = site)
OpCalls(h, op) == SelectSeq(h, LAMBDA c : c.op = op)
InChain(op) == hist # <<>> /\ hist[1].op = op

C8_Then ==
  InChain("if") =>
    LET r == hist[1].recv
        p == hist[1].args[1]
        holds == r.tag = "Success" /\ Truthy(Invoke(p, r.value).val)
        thens == OpCalls(hist, "then")
    IN  /\ SiteCalls(spy, "then") =
             IF holds
             THEN [i \in 1..Len(thens) |-> Spy("then", 0, thens[i].args[1], <<r.value>>)]
             ELSE <<>>
        /\ SiteCalls(spy, "predicate") =
             IF r.tag = "Success" THEN <<Spy("predicate", 0, p, <<r.value>>)>> ELSE <<>>
        /\ last.op = "then" => (last.kind = "return" /\ last.val = last.recv)
        /\ (pc = "cond" /\ r.tag = "Failure") => ~Truthy(chain.condition)

C8_Witness ==
  /\ pc = "cond"
  /\ InChain("if")
  /\ hist[1].recv.tag = "Success"
  /\ Len(OpCalls(hist, "then")) = 2
  /\ Len(SiteCalls(spy, "then")) = 2
  /\ spy[2].fn # spy[3].fn

\* C9: success(a).flatMap(f) is f(a): same variant, same payload, nothing
\* wrapped around it, f invoked once with a; success(a).map(g) is
\* success(g(a)) with g invoked once with a.
C9_LeftIdentity ==
  /\ (last.op = "flatMap" /\ last.recv.tag = "Success") =>
       LET f == last.args[1]
           a == last.recv.value
           e == InvokeR(f, a, 0).val
       IN  /\ last.kind = "return"
           /\ last.val.tag = e.tag
           /\ IF e.tag = "Success" THEN last.val.value = e.value
              ELSE last.val.error = e.error
           /\ last.calls = <<Spy("f", 0, f, <<a>>)>>
  /\ (last.op = "map" /\ last.recv.tag = "Success"
        /\ Invoke(last.args[1], last.recv.value).kind = "return") =>
       LET g == last.args[1]
           a == last.recv.value
       IN  /\ last.kind = "return"
           /\ isSuccess(last.val)
           /\ last.val.value = Invoke(g, a).val
           /\ last.calls = <<Spy("f", 0, g, <<a>>)>>

C9_Witness ==
  /\ last.op = "flatMap"
  /\ last.recv.tag = "Success"
  /\ last.args[1].g = IncFn
  /\ isSuccess(last.val)
  /\ last.val.value # last.recv.value

\* C10: unwrap returns the pair (value, null) for a Success and (null, error)
\* for a Failure, whatever the payload, null and undefined included.
C10_Unwrap ==
  last.op = "unwrap" =>
    /\ last.kind = "return"
    /\ last.val.t = "array"
    /\ Len(last.val.items) = 2
    /\ last.recv.tag = "Success" =>
         (last.val.items[1] = last.recv.value /\ last.val.items[2] = NullV)
    /\ last.recv.tag = "Failure" =>
         (last.val.items[1] = NullV /\ last.val.items[2] = last.recv.error)

C10_Witness ==
  /\ last.op = "unwrap"
  /\ last.recv.tag = "Failure"
  /\ last.recv.error = UndefV
  /\ last.val.items = <<NullV, UndefV>>

Reverse(s) == [i \in 1..Len(s) |-> s[Len(s) + 1 - i]]

\* threading v through seq[k..]: the arguments the functions are invoked on,
\* and the variant and payload of the outcome
RECURSIVE Thread(_, _, _, _)
Thread(seq, k, v, fed) ==
  IF k > Len(seq) THEN [fed |-> fed, tag |-> "Success", payload |-> v]
  ELSE IF Fails1(seq[k], v)
       THEN [fed |-> Append(fed, v), tag |-> "Failure", payload |-> ErrOf1(seq[k], v)]
       ELSE Thread(seq, k + 1, ValOf1(seq[k], v), Append(fed, v))

Payload(r) == IF r.tag = "Success" THEN r.value ELSE r.error
\* the invocations of a spy log, without the positions in the argument list
Invocations(calls) == [j \in 1..Len(calls) |-> <<calls[j].fn, calls[j].args>>]

C13_FromPromise ==
  last.op = "fromPromise" =>
    LET src == proms[1]
        ret == proms[last.val.id]
        onError == last.args[2]
        nonThrowing == onError = UndefV \/ onError.k # "throw"
    IN  /\ src.st = "pending" => ret.st = "pending" /\ spy = <<>>
        /\ nonThrowing => ret.st # "rejected"
        /\ nonThrowing /\ src.st # "pending" /\ jobs = <<>> => ret.st = "fulfilled"
        /\ src.st = "fulfilled" =>
             /\ spy = <<>>
             /\ ret.st = "fulfilled" =>
                  ret.val.tag = "Success" /\ ret.val.value = src.val
        /\ src.st = "rejected" /\ ret.st = "fulfilled" =>
             /\ ret.val.tag = "Failure"
             /\ IF onError # UndefV
                THEN /\ ret.val.error = Invoke(onError, src.val).val
                     /\ Invocations(spy) = << <<onError, <<src.val>> >> >>
                ELSE /\ spy = <<>>
                     /\ ret.val.error =
                          IF src.val.t = "error" THEN src.val
                          ELSE ErrorV("Error", String(src.val))

\* the source rejected with null and no onError was given: the Failure
\* carries new Error("null")
C13_Witness ==
  /\ last.op = "fromPromise"
  /\ last.args[2] = UndefV
  /\ proms[1].st = "rejected"
  /\ proms[1].val = NullV
  /\ proms[last.val.id].st = "fulfilled"
  /\ proms[last.val.id].val.tag = "Failure"
  /\ proms[last.val.id].val.error = ErrorV("Error", "null")

\* ---------------------------------------------------------------------- C14
\* C14: the promise fromPromiseTuple returns never rejects and fulfils with
\* the pair (await fromPromise(promise)).unwrap(): [value, null] when the
\* source fulfilled with value, [null, error] when it rejected, error being
\* an Error in every case (the reason itself if it is one, else
\* new Error(String(reason))); the error component is null exactly when the
\* source fulfilled.
C14_FromPromiseTuple ==
  last.op = "fromPromiseTuple" =>
    LET src == proms[1]
        ret == proms[last.val.id]
        inner == proms[ret.awaiting]
    IN  /\ ret.st # "rejected"
        /\ src.st = "pending" => ret.st = "pending"
        /\ src.st # "pending" /\ jobs = <<>> => ret.st = "fulfilled"
        /\ ret.st = "fulfilled" =>
             /\ ret.val.t = "array"
             /\ Len(ret.val.items) = 2
             /\ inner.st = "fulfilled"
             /\ ret.val.items = Result_unwrap(inner.val, 0).val.items
             /\ src.st = "fulfilled" => ret.val.items = <<src.val, NullV>>
             /\ src.st = "rejected" =>
                  /\ ret.val.items[1] = NullV
                  /\ InstanceOfError(ret.val.items[2])
                  /\ ret.val.items[2] =
                       IF src.val.t = "error" THEN src.val
                       ELSE ErrorV("Error", String(src.val))
             /\ ret.val.items[2] = NullV <=> src.st = "fulfilled"

\* the source rejects with undefined: the pair is [null, Error("undefined")]
C14_Witness ==
  /\ last.op = "fromPromiseTuple"
  /\ proms[1].st = "rejected"
  /\ proms[1].val = UndefV
  /\ proms[last.val.id].st = "fulfilled"
  /\ proms[last.val.id].val.items = <<NullV, ErrorV("Error", "undefined")>>

\* ---------------------------------------------------------------------- C15
ArrayOpsC15 ==
  {"Array.map", "Array.filter", "Array.reduce", "Array.head", "Array.tail", "Array.get"}
ObjectOpsC15 ==
  {"prop", "pick", "omit", "getPath", "mapValues", "filterValues", "merge", "defaults",
   "compact", "clone", "keys", "values", "entries"}
IsHeapRef(v) == v.t \in {"object", "array"}
\* the arrays/objects passed to the call in last
Inputs ==
  CASE last.op \in {"Array.head", "Array.tail"} -> {last.args[1]}
    [] last.op \in {"Array.map", "Array.filter"} -> {last.args[2]}
    [] last.op \in {"Array.reduce", "Array.get"} -> {last.args[3]}
    [] last.op = "merge" -> {last.args[2][i] : i \in 1..Len(last.args[2])}
    [] last.op = "defaults" -> {last.args[1], last.args[2]}
    [] OTHER -> {last.args[Len(last.args)]}
InputRefs == {v.ref : v \in {x \in Inputs : IsHeapRef(x)}}
\* every object the call could reach is as it was when the call started
InputsIntact ==
  last.op \in ObjectOpsC15 =>
    \A r \in DOMAIN last.before : r \in DOMAIN heap /\ heap[r] = last.before[r]
\* the array/object inside a returned Success is not one of the inputs
OutputFresh ==
  (last.kind = "return" /\ last.val.tag = "Success" /\ IsHeapRef(last.val.value))
    => last.val.value.ref \notin InputRefs

\* C15: after a call of map, filter, reduce, head, tail, get, prop, pick, omit,
\* getPath, mapValues, filterValues, merge, defaults, compact, clone, keys,
\* values or entries, every input array/object equals its pre-call snapshot
\* and the array/object inside the returned Success is not the input itself.
C15_Immutable ==
  last.op \in ArrayOpsC15 \cup ObjectOpsC15 => InputsIntact /\ OutputFresh

\* the same, leaving out getPath called with the empty path
C15_ExceptEmptyPath ==
  (last.op \in ArrayOpsC15 \cup ObjectOpsC15
     /\ ~(last.op = "getPath" /\ last.args[1] = <<>>))
    => InputsIntact /\ OutputFresh

\* ---------------------------------------------------------------------- C16
\* key is absent from v, or present with the value undefined
Lacks(m, v, key) ==
  IF v.t \in {"object", "array", "function"}
  THEN ~(HasOwn(m, v, key) \/ key \in ProtoKeys) \/ Get(m, v, key) = UndefV
  ELSE TRUE
\* the call in last returned failure(onMissing(...args)) and did nothing else
FailedWith(onMissing, args) ==
  /\ last.kind = "return"
  /\ last.val.tag = "Failure"
  /\ last.calls = <<Spy("onMissing", 0, onMissing, args)>>
  /\ last.val.error = Invoke(onMissing, IF args = <<>> THEN UndefV ELSE args[1]).val
\* the call in last returned success(v) without consulting onMissing
SucceededWith(v) ==
  /\ last.kind = "return"
  /\ last.val.tag = "Success"
  /\ last.val.value = v
  /\ last.calls = <<>>
\* the value a path leads to from current, Absent when a segment is lacking
RECURSIVE Walk(_, _, _, _)
Walk(m, path, i, current) ==
  IF i > Len(path) THEN current
  ELSE IF Lacks(m, current, path[i]) THEN Absent
  ELSE Walk(m, path, i + 1, Get(m, current, path[i]))
PropAsClaimed ==
  last.op = "prop" =>
    LET key == last.args[1]
        obj == last.args[3]
    IN  IF Lacks(last.before, obj, key) THEN FailedWith(last.args[2], <<>>)
        ELSE SucceededWith(Get(last.before, obj, key))
PickAsClaimed ==
  last.op = "pick" =>
    LET ks == last.args[1]
        obj == last.args[3]
        lacking == {i \in 1..Len(ks) : Lacks(last.before, obj, ks[i])}
        first == CHOOSE i \in lacking : \A j \in lacking : i <= j
    IN  IF lacking # {} THEN FailedWith(last.args[2], <<Str(ks[first])>>)
        ELSE /\ last.kind = "return"
             /\ last.val.tag = "Success"
             /\ last.calls = <<>>
             /\ last.val.value.t = "object"
             /\ \A key \in KeySet :
                  heap[last.val.value.ref].props[key] =
                    IF \E i \in 1..Len(ks) : ks[i] = key
                    THEN Get(last.before, obj, key) ELSE Absent
GetPathAsClaimed ==
  last.op = "getPath" =>
    LET path == last.args[1]
        found == Walk(last.before, path, 1, last.args[3])
    IN  IF found = Absent THEN FailedWith(last.args[2], <<Str(Join(path, "."))>>)
        ELSE SucceededWith(found)

\* C16: prop, pick and getPath return failure(onMissing(..)) whenever a
\* requested key or path segment is absent or holds undefined, and a Success
\* otherwise (a null value counts as present); pick reports the first lacking
\* key in the order of its keys argument, getPath the path joined with '.'.
C16_MissingKeys == PropAsClaimed /\ PickAsClaimed /\ GetPathAsClaimed

\* prop alone behaves as C16 says
C16_Prop == PropAsClaimed

\* ---------------------------------------------------------------------- C17
\* the fold C17 describes, over the property maps of the sources: acc holds
\* what the earlier keys supplied, calls the resolver invocations so far
RECURSIVE MergeFold(_, _, _, _, _, _, _)
MergeFold(onConflict, m, sources, i, j, acc, calls) ==
  IF i > Len(sources) THEN [tag |-> "merged", props |-> acc, calls |-> calls]
  ELSE LET ks == ObjectKeys(m, sources[i])
       IN  IF j > Len(ks) THEN MergeFold(onConflict, m, sources, i + 1, 1, acc, calls)
           ELSE LET key == ks[j]
                    incoming == m[sources[i].ref].props[key]
                    r == InvokeR3(onConflict, key, acc[key], incoming, 0).val
                    log == calls \o <<Spy("onConflict", i, onConflict,
                                          <<Str(key), acc[key], incoming>>)>>
                IN  IF acc[key] = Absent
                    THEN MergeFold(onConflict, m, sources, i, j + 1,
                                   [acc EXCEPT ![key] = incoming], calls)
                    ELSE IF r.tag = "Failure"
                    THEN [tag |-> "aborted", error |-> r.error, calls |-> log]
                    ELSE MergeFold(onConflict, m, sources, i, j + 1,
                                   [acc EXCEPT ![key] = r.value], log)
MergeAsClaimed ==
  LET e == MergeFold(last.args[1], last.before, last.args[2], 1, 1, EmptyProps, <<>>)
  IN  /\ last.kind = "return"
      /\ last.calls = e.calls
      /\ IF e.tag = "aborted"
         THEN last.val.tag = "Failure" /\ last.val.error = e.error
         ELSE /\ last.val.tag = "Success"
              /\ last.val.value.t = "object"
              /\ last.val.value.ref \notin DOMAIN last.before
              /\ heap[last.val.value.ref].props = e.props

\* C17: merge folds the sources left to right over their own keys into a
\* fresh object; the resolver is consulted exactly when an earlier source
\* already supplied the key, whatever its name, with the value resolved so
\* far; its Success replaces the value, its Failure is returned at once and
\* nothing later is processed; merge of no sources is success({}).
C17_Merge == last.op = "merge" => MergeAsClaimed

\* the same when no source has an own key that plain objects also inherit
C17_OffInherited ==
  (last.op = "merge"
     /\ \A r \in DOMAIN last.before, key \in ProtoKeys : last.before[r].props[key] = Absent)
    => MergeAsClaimed

\* ---------------------------------------------------------------------- C18
\* the values an array or object directly holds
Children(m, v) ==
  IF v.t = "array" THEN {m[v.ref].items[i] : i \in 1..Len(m[v.ref].items)}
  ELSE IF v.t = "object" THEN {m[v.ref].props[key] : key \in KeySet} \ {Absent}
  ELSE {}
\* v sits at depth d: some value in it lies deeper than maxDepth
RECURSIVE Deeper(_, _, _, _)
Deeper(m, v, d, maxDepth) ==
  d > maxDepth \/ \E c \in Children(m, v) : Deeper(m, c, d + 1, maxDepth)
\* w in heap n is a copy of v in heap m, at most fuel levels deep: equal
\* leaves, same functions, and for arrays/objects a cell not in m holding
\* copies of what v holds
RECURSIVE CopyOf(_, _, _, _, _)
CopyOf(m, v, n, w, fuel) ==
  IF v.t \notin {"array", "object"} THEN w = v
  ELSE /\ fuel > 0
       /\ w.t = v.t
       /\ w.ref \notin DOMAIN m
       /\ w.ref \in DOMAIN n
       /\ IF v.t = "array"
          THEN /\ Len(n[w.ref].items) = Len(m[v.ref].items)
               /\ \A i \in 1..Len(m[v.ref].items) :
                    CopyOf(m, m[v.ref].items[i], n, n[w.ref].items[i], fuel - 1)
          ELSE \A key \in KeySet :
                 IF m[v.ref].props[key] = Absent THEN n[w.ref].props[key] = Absent
                 ELSE CopyOf(m, m[v.ref].props[key], n, n[w.ref].props[key], fuel - 1)

FailedBy(errorFn, args) ==
  /\ last.kind = "return"
  /\ last.val.tag = "Failure"
  /\ last.val.error = Invoke(errorFn, IF args = <<>> THEN UndefV ELSE args[1]).val
  /\ last.calls = <<Spy("errorFn", 0, errorFn, args)>>
\* the call in last returned success(v), errorFn never called
SucceededBy(v) ==
  /\ last.kind = "return"
  /\ last.val.tag = "Success"
  /\ last.val.value = v
  /\ last.calls = <<>>

\* C19: head(arr, errorFn) is failure(errorFn()) iff arr is empty and
\* success(arr[0]) otherwise; get(index, errorFn)(arr) is
\* failure(errorFn(index)) iff index < 0 or index >= arr.length and
\* success(arr[index]) otherwise; an in-bounds undefined or null element is
\* a Success, and errorFn runs on the failure path only.
C19_HeadGet ==
  /\ last.op = "Array.head" =>
       LET items == last.args[1].items
       IN  IF Len(items) = 0 THEN FailedBy(last.args[2], <<>>)
           ELSE SucceededBy(items[1])
  /\ last.op = "Array.get" =>
       LET index == last.args[1]
           items == last.args[3].items
       IN  IF index < 0 \/ index >= Len(items) THEN FailedBy(last.args[2], <<Num(index)>>)
           ELSE SucceededBy(items[index + 1])
\* get(1, errorFn)([null, undefined]) is success(undefined)
C19_Witness ==
  /\ last.op = "Array.get"
  /\ last.args[1] = 1
  /\ last.args[3].items = <<NullV, UndefV>>
  /\ last.val.tag = "Success"
  /\ last.val.value = UndefV
  /\ last.calls = <<>>

\* ---------------------------------------------------------------------- C20
\* C20: tryCatch(f, onError) invokes f exactly once; if f returns x the
\* result is success(x) and onError is not invoked; if f throws t, whatever
\* t is, the result is failure(onError(t)) and nothing is thrown to the caller.
C20_TryCatch ==
  last.op = "tryCatch" =>
    LET f == last.args[1]
        onError == last.args[2]
        o == Invoke(f, UndefV)
        once == <<Spy("f", 0, f, <<>>)>>
    IN  /\ last.kind = "return"
        /\ IF o.kind = "return"
           THEN /\ last.val.tag = "Success"
                /\ last.val.value = o.val
                /\ last.calls = once
           ELSE /\ last.val.tag = "Failure"
                /\ last.val.error = Invoke(onError, o.val).val
                /\ last.calls = once \o <<Spy("onError", 0, onError, <<o.val>>)>>
\* tryCatch(() => { throw null }, e => e) is failure(null)
C20_Witness ==
  /\ last.op = "tryCatch"
  /\ last.args[1] = ThrowFn(NullV)
  /\ last.args[2] = IdFn
  /\ last.kind = "return"
  /\ last.val.tag = "Failure"
  /\ last.val.error = NullV
  /\ Len(last.calls) = 2

\* ---------------------------------------------------------------------- C21
\* no callback the call in last invoked was one that throws
CallbacksReturned == \A i \in 1..Len(last.calls) : last.calls[i].fn.k # "throw"
\* the two throws the library makes on purpose
ThrowsByContract ==
  \/ /\ last.op = "getOrThrow"
     /\ last.recv.tag = "Failure"
     /\ last.val = last.recv.error
  \/ /\ last.op = "match"
     /\ IF last.recv.tag = "Success"
        THEN Applicable(last.args[1], last.recv.value) = {}
        ELSE FailurePatterns(last.args[1]) = {}

\* C21: when the callbacks it invoked did not throw, a library call throws
\* only as getOrThrow() on a Failure (the stored error itself) or as match()
\* with no applicable pattern; every other call returns normally, whatever
\* value it is applied to.
C21_NoThrow == (last.kind = "throw" /\ CallbacksReturned) => ThrowsByContract

\* the same for every call but match on a null/undefined payload and getPath
C21_OffDefects ==
  (/\ last.op # "getPath"
   /\ (last.op = "match" /\ last.recv.tag = "Success") => CanRead(last.recv.value))
    => C21_NoThrow

\* ---------------------------------------------------------------------- C22
\* the Failure the call in last started from, Nothing when there is none:
\* its receiver, the Result a chain was opened on, the first Failure handed
\* to all(), or the Failure a stage/element callback returned
StageFailed(c) ==
  \/ c.fn.k = "rfn" /\ c.args[1] \in c.fn.failOn
  \/ c.fn.k = "rfn2" /\ c.args[2] \in c.fn.failOn
CameFromFailure ==
  CASE last.op \in {"map", "flatMap", "mapError", "recover", "Result.else"} ->
         last.recv.tag = "Failure"
    [] last.op \in {"then", "else"} -> InChain("if") /\ hist[1].recv.tag = "Failure"
    [] last.op = "all" ->
         \E i \in 1..Len(last.args[1]) : last.args[1][i].tag = "Failure"
    [] last.op \in {"compose", "pipe", "Array.map", "Array.filter", "Array.reduce"} ->
         \E j \in 1..Len(last.calls) : StageFailed(last.calls[j])
    [] OTHER -> FALSE

\* C22: a call of map, flatMap, mapError, .if().then().else(), all, compose,
\* pipe or a collection operator that starts from a Failure yields a Failure;
\* the only call that turns a Failure into a Success is recover, and
\* recover(f) on failure(e) is success(f(e)) with f invoked once.
C22_NoImplicitRecovery ==
  /\ (CameFromFailure /\ last.kind = "return" /\ last.op \notin {"recover", "then"}) =>
        /\ isFailure(last.val)
        /\ pc = "result" => isFailure(cur)
  /\ (last.op = "then" /\ CameFromFailure /\ last.kind = "return") =>
        isFailure(chain.result)
  /\ (last.op = "recover" /\ last.recv.tag = "Failure") =>
        LET f == last.args[1]
            e == last.recv.error
        IN  /\ last.calls = <<Spy("f", 0, f, <<e>>)>>
            /\ IF Invoke(f, e).kind = "throw"
               THEN last.kind = "throw"
               ELSE /\ last.kind = "return"
                    /\ isSuccess(last.val)
                    /\ last.val.value = Invoke(f, e).val
\* failure(e).mapError(() => null) is failure(null)
C22_Witness ==
  /\ last.op = "mapError"
  /\ last.recv.tag = "Failure"
  /\ last.args[1] = ConstFn(NullV)
  /\ last.kind = "return"
  /\ pc = "result"
  /\ isFailure(cur)
  /\ cur.error = NullV

\* ---------------------------------------------------------------------- C23
\* the chain in hand was opened by .try() of an operation returning a promise
AsyncTried == InChain("try") /\ hist[1].args[1].k = "async" /\ hist[1].recv.tag = "Success"

\* C23: when the operation passed to .try() on a Success returns a promise
\* that rejects later, .try(op).catch(h) is at once a Success holding that
\* promise; h is not invoked when the chain is resolved and nothing is
\* registered on the promise, so h is not invoked when it rejects either and
\* the Result stays a Success.
C23_AsyncNotCaught ==
  AsyncTried =>
    /\ SiteCalls(spy, "errorHandler") = <<>>
    /\ proms[1].reactions = <<>>
    /\ jobs = <<>>
    /\ pc = "try" => ~chain.threw /\ chain.payload = PromiseRef(1)
    /\ last.op = "catch" =>
         /\ last.kind = "return"
         /\ isSuccess(last.val)
         /\ last.val.value = PromiseRef(1)
         /\ pc = "result"
         /\ cur = Canon(last.val)
\* the promise has rejected after .catch() handed out the Success
C23_Witness ==
  /\ AsyncTried
  /\ last.op = "catch"
  /\ proms[1].st = "rejected"
  /\ pc = "result"
  /\ isSuccess(cur)
  /\ cur.value = PromiseRef(1)
  /\ spy = <<Spy("operation", 0, AsyncFn(1), <<hist[1].recv.value>>)>>

\* ---------------------------------------------------------------------- C24
\* C24: chain.finally(cleanup) invokes cleanup once - whether the tried
\* operation returned or threw, or the receiver of .try() was a Failure - and
\* hands back the chain unchanged, so that .catch(h) yields the Result it
\* would have yielded straight after .try().
C24_Finally ==
  /\ last.op = "finally" =>
       /\ last.kind = "return"
       /\ last.calls = <<Spy("cleanup", 0, last.args[1], <<>>)>>
       /\ last.val = last.recv
       /\ chain = last.recv
  /\ (last.op \in {"finally", "catch"} /\ InChain("try")) =>
       Len(SiteCalls(spy, "cleanup")) = Len(OpCalls(hist, "finally"))
  /\ (last.op = "catch" /\ InChain("try")) =>
       LET tried == Result_try(hist[1].recv, hist[1].args[1], FreshRef)
           direct == TryChain_catch(CanonChain(tried.val), last.args[1], FreshRef)
       IN  /\ last.kind = direct.kind
           /\ last.val = direct.val
           /\ SiteCalls(spy, "errorHandler") = direct.calls
\* failure(e).try(op).finally(c).catch(h): c ran once, the result is a Failure
C24_Witness ==
  /\ last.op = "catch"
  /\ InChain("try")
  /\ hist[1].recv.tag = "Failure"
  /\ Len(OpCalls(hist, "finally")) = 1
  /\ Len(SiteCalls(spy, "cleanup")) = 1
  /\ isFailure(cur)

IsResult(v) == "tag" \in DOMAIN v /\ v.tag \in {"Success", "Failure"}

\* C26: match hands back a Result: success(handler(v)) for the winning
\* pattern, and a Failure, not a thrown error, when no pattern applies.
C26_MatchReturnsResult ==
  last.op = "match" =>
    LET patterns == last.args[1]
        r == last.recv
        winners == IF r.tag = "Success" THEN Applicable(patterns, r.value)
                   ELSE FailurePatterns(patterns)
        w == Least(winners)
        hd == patterns[w][Len(patterns[w])]
    IN  /\ last.kind = "return"
        /\ IsResult(last.val)
        /\ IF winners = {} THEN last.val.tag = "Failure"
           ELSE /\ last.val.tag = "Success"
                /\ last.val.value = Invoke(hd, Payload(r)).val

\* what match hands back instead: the bare return value of the handler
C26_BareValue ==
  (last.op = "match" /\ last.kind = "return") =>
    /\ ~IsResult(last.val)
    /\ \E i \in 1..Len(last.args[1]) :
         LET hd == last.args[1][i][Len(last.args[1][i])]
         IN  last.val = Invoke(hd, Payload(last.recv)).val

\* ---------------------------------------------------------------------- C27
\* one more .try(op).catch(hd) stage on the Result r: [val, ops, handlers],
\* the Result it yields and the invocations of op and of hd
Stage(r, op, hd) ==
  LET tried == Result_try(r, op, FreshRef)
      caught == TryChain_catch(CanonChain(tried.val), hd, FreshRef)
  IN  [val |-> caught.val, ops |-> tried.calls, handlers |-> caught.calls]

\* C27: on a Failure holding e, r.try(op).catch(h) does not invoke op and
\* yields failure(h(e)); a further stage .try(op2).catch(h2) yields
\* failure(h2(h(e))), again without invoking its operation: each handler runs
\* once, in stage order, on the error of the stage before, and the result
\* stays a Failure.
C27_FailureThroughStages ==
  /\ (last.op = "try" /\ last.recv.tag = "Failure") =>
       last.kind = "return" /\ last.calls = <<>>
  /\ (last.op = "catch" /\ InChain("try") /\ hist[1].recv.tag = "Failure") =>
       LET e == hist[1].recv.error
           hd == last.args[1]
       IN  /\ SiteCalls(spy, "operation") = <<>>
           /\ SiteCalls(spy, "errorHandler") = <<Spy("errorHandler", 0, hd, <<e>>)>>
           /\ last.kind = "return"
           /\ isFailure(last.val)
           /\ last.val.error = Invoke(hd, e).val
           /\ pc = "result" /\ isFailure(cur)
           /\ \A op2 \in Fns, h2 \in PureFns :
                LET next == Stage(cur, op2, h2)
                IN  /\ next.ops = <<>>
                    /\ next.handlers = <<Spy("errorHandler", 0, h2, <<cur.error>>)>>
                    /\ isFailure(next.val)
                    /\ next.val.error = Invoke(h2, Invoke(hd, e).val).val
\* failure(0).try(() => null).catch(n => n + 1) is failure(1)
C27_Witness ==
  /\ last.op = "catch"
  /\ InChain("try")
  /\ hist[1].recv = Failure(Num(0), 0)
  /\ hist[1].args[1] = ConstFn(NullV)
  /\ last.args[1] = IncFn
  /\ cur = Failure(Num(1), 0)
  /\ Len(spy) = 1

\* ---------------------------------------------------------------------- C28
\* the call in last is a match on a Success whose first tuple destructures
DestructuringFirst ==
  /\ last.op = "match"
  /\ last.recv.tag = "Success"
  /\ Len(last.args[1]) >= 1
  /\ isDestructuringPattern(last.args[1][1])

\* C28: [success, obj, h] applies to a Success holding v exactly when
\* v[k] === obj[k] for every own key k of obj, compared shallowly: an empty
\* obj always applies, a key absent from v matches only the expectation
\* undefined, and a nested object matches only the very same object.  When
\* it applies (it stands first here) h(v) is the outcome; when it does not,
\* h is not invoked and the next tuples are tried.
C28_Destructuring ==
  DestructuringFirst =>
    LET patterns == last.args[1]
        v == last.recv.value
        hd == patterns[1][3]
    IN  IF KeysMatch(patterns[1][2], v)
        THEN /\ last.kind = "return"
             /\ last.val = Invoke(hd, v).val
             /\ last.calls = <<Spy("handler", 1, hd, <<v>>)>>
        ELSE /\ \A j \in 1..Len(last.calls) : last.calls[j].idx # 1
             /\ IF Applicable(patterns, v) = {}
                THEN /\ last.kind = "throw"
                     /\ last.val = ErrorV("Error", "No matching pattern found")
                ELSE last.kind = "return"

\* the same for payloads that have properties to read
C28_OffNullish == (DestructuringFirst /\ CanRead(last.recv.value)) => C28_Destructuring

\* ---------------------------------------------------------------------- C29
\* the Result-returning functions under a list of stages
Underlying(fns) == [j \in 1..Len(fns) |-> fns[j].rfn]

\* C29: composeAsync (last stage first) and pipeAsync (first stage first) run
\* one stage at a time: the j-th stage invoked receives the Success value the
\* stage before fulfilled with and is not invoked before that promise has
\* fulfilled; after a stage fulfilled with a Failure no stage is invoked and
\* that Failure is the final Result; without stages the Result is
\* success(initial); and the final Result is that of compose / pipe over the
\* same functions.
C29_AsyncStages ==
  pc = "stages" =>
    LET op == hist[1].op
        fns == hist[1].args[1]
        x == hist[1].args[2]
        order == IF op = "pipeAsync" THEN [j \in 1..Len(fns) |-> j]
                 ELSE [j \in 1..Len(fns) |-> Len(fns) + 1 - j]
        seq == [j \in 1..Len(fns) |-> fns[order[j]].rfn]
        t == Thread(seq, 1, x, <<>>)
        n == Len(spy)
        sync == IF op = "pipeAsync" THEN pipe(Underlying(fns), x, FreshRef)
                ELSE compose(Underlying(fns), x, FreshRef)
    IN  /\ n <= Len(t.fed)
        /\ Len(proms) = 1 + n
        /\ \A j \in 1..n : spy[j] = Spy("fn", order[j], fns[order[j]], <<t.fed[j]>>)
        /\ \A j \in 1..(n - 1) :
             /\ proms[1 + j].st = "fulfilled"
             /\ isSuccess(proms[1 + j].val)
             /\ proms[1 + j].val.value = t.fed[j + 1]
        /\ \A j \in 1..n :
             (proms[1 + j].st = "fulfilled" /\ isFailure(proms[1 + j].val)) =>
                /\ j = n
                /\ proms[1].st = "fulfilled" =>
                     /\ isFailure(proms[1].val)
                     /\ proms[1].val.error = proms[1 + j].val.error
        /\ proms[1].st # "rejected"
        /\ proms[1].st = "fulfilled" =>
             /\ n = Len(t.fed)
             /\ \A j \in 1..n : proms[1 + j].st = "fulfilled"
             /\ proms[1].val.tag = t.tag
             /\ Payload(proms[1].val) = t.payload
             /\ proms[1].val.tag = sync.val.tag
             /\ Payload(proms[1].val) = Payload(sync.val)
             /\ fns = <<>> => isSuccess(proms[1].val) /\ proms[1].val.value = x
\* composeAsync(f1, f2)(x) with both stages fulfilling later: f2 ran first,
\* f1 after it, and the final Result is a Success
C29_Witness ==
  /\ pc = "stages"
  /\ hist[1].op = "composeAsync"
  /\ Len(hist[1].args[1]) = 2
  /\ \A j \in 1..2 : hist[1].args[1][j].when = "later"
  /\ hist[1].args[1][1].rfn # hist[1].args[1][2].rfn
  /\ Len(spy) = 2
  /\ spy[1].idx = 2
  /\ spy[2].idx = 1
  /\ proms[1].st = "fulfilled"
  /\ isSuccess(proms[1].val)


\* ---------------------------------------------------------------------- C30
\* the values reachable from vs in at most n steps through arrays and objects
RECURSIVE Below(_, _, _)
Below(m, vs, n) ==
  IF n = 0 THEN vs ELSE Below(m, vs \cup UNION {Children(m, c) : c \in vs}, n - 1)
\* some array or object reachable from v contains itself, directly or not
Cyclic(m, v) ==
  \E c \in Below(m, {v}, Cardinality(DOMAIN m)) :
    /\ c.t \in {"array", "object"}
    /\ c \in Below(m, Children(m, c), Cardinality(DOMAIN m))

\* C30: clone(options, onDepthExceeded)(obj) comes back with a Result on every
\* input and leaves every array and object of the input as it was; on an input
\* with a circular reference that Result is failure(onDepthExceeded(maxDepth + 1)),
\* reached after a single call of onDepthExceeded.
C30_CloneTerminates ==
  last.op = "clone" =>
    LET maxDepth == MaxDepthOf(last.args[1])
        onDepthExceeded == last.args[2]
        obj == last.args[3]
    IN  /\ last.kind = "return"
        /\ last.val.tag \in {"Success", "Failure"}
        /\ \A r \in DOMAIN last.before : r \in DOMAIN heap /\ heap[r] = last.before[r]
        /\ Cyclic(last.before, obj) =>
             /\ last.val.tag = "Failure"
             /\ last.val.error = Invoke(onDepthExceeded, Num(maxDepth + 1)).val
             /\ Len(last.calls) = 1
             /\ last.calls[1].args = <<Num(maxDepth + 1)>>
\* clone({}, d => d) of {a: [null, <the object>], b: 0} is failure(11)
C30_Witness ==
  /\ last.op = "clone"
  /\ last.args[1].maxDepth = UndefV
  /\ last.args[2] = IdFn
  /\ last.args[3] = CyclicPair.val
  /\ last.before = CyclicPair.heap
  /\ Cyclic(last.before, last.args[3])
  /\ last.kind = "return"
  /\ last.val.tag = "Failure"
  /\ last.val.error = Num(DefaultMaxDepth + 1)
  /\ \A r \in DOMAIN last.before : heap[r] = last.before[r]

====
